---------------------------- MODULE Spec2Model ----------------------------
(***************************************************************************)
(* Verification model of the SoulMiles exploration grid:                   *)
(*   - the grid utility (coordinate <-> grid id, region enumeration),      *)
(*   - the footprint handlers that record visits and derive the explored   *)
(*     set and the "mist" (coverage) percentage.                           *)
(*                                                                         *)
(* JavaScript numbers are IEEE-754 doubles.  The grid id depends on        *)
(* Math.floor(lon / 0.01), on accumulated += 0.01 and on toFixed, so the   *)
(* model computes with doubles exactly: a double is a sign, an odd         *)
(* mantissa (a natural number of at most 53 bits, kept as a sequence of   *)
(* 13-bit limbs because TLC integers are 32 bits wide) and a binary        *)
(* exponent; every operation rounds to nearest, ties to even.              *)
(***************************************************************************)
EXTENDS Integers, Sequences, FiniteSets, TLC

(***************************************************************************)
(* The footprint table (prisma.footprint) and the requests in flight.      *)
(***************************************************************************)
VARIABLES
  footprints,              \* the rows of the table, in insertion order
  cachedAllTaiwanGridIds,  \* the module-level cache of getAllTaiwanGridIds
  requests,                \* request slot -> the handler run using it
  clock,                   \* the time the next `new Date()` / now() returns
  dbAvailable,             \* FALSE while the database refuses connections
  args,                    \* input of the pure function under study
  result,                  \* what the function or the read returned
  tasks,                   \* the rows of the Task table
  userTasks,               \* the rows of the UserTask table
  mapRecords,              \* the rows of the MapRecord table
  mapRecordPictures        \* the rows of the MapRecordPicture table

taskTables == <<tasks, userTasks>>
mapTables == <<mapRecords, mapRecordPictures>>

vars == <<footprints, cachedAllTaiwanGridIds, requests, clock,
          dbAvailable, args, result, taskTables, mapTables>>

RECURSIVE Call(_, _)

(***************************************************************************)
(* Natural numbers of arbitrary size: little-endian sequences of limbs in  *)
(* base LimbBase, without leading zero limbs (zero is << >>).              *)
(* The operations are written without deep recursion (carries are found   *)
(* by look-ahead, quotient limbs by trial), so that evaluating them needs  *)
(* little stack.                                                           *)
(***************************************************************************)
LimbBits == 13
LimbBase == 8192

\* LET x == v IN F(x), written as an application so that v is evaluated
\* once however often F uses it
Let(v, F(_)) == F(v)

Pow2(n) == <<1, 2, 4, 8, 16, 32, 64, 128, 256, 512, 1024, 2048, 4096, 8192>>[n + 1]

SetMax(S) == CHOOSE x \in S : \A y \in S : y <= x
SetMin(S) == CHOOSE x \in S : \A y \in S : x <= y

\* the tuple of the values of a function on 1..n
Tup(f) == << >> \o f

Limb(a, i) == IF i >= 1 /\ i <= Len(a) THEN a[i] ELSE 0

BNorm(a) ==
  Let(Tup(a), LAMBDA t :
    Let({i \in 1..Len(t) : t[i] # 0}, LAMBDA nz :
      IF nz = {} THEN << >> ELSE SubSeq(t, 1, SetMax(nz))))

\* a natural number below 2^31
BFromInt(n) ==
  Call("BNorm", <<<<n % LimbBase, (n \div LimbBase) % LimbBase,
          n \div (LimbBase * LimbBase)>>>>)

\* a big natural known to be below 2^31
BToInt(a) == Limb(a, 1) + LimbBase * (Limb(a, 2) + LimbBase * Limb(a, 3))

\* -1, 0 or 1 as a < b, a = b, a > b
BCmp(a, b) ==
  IF a = b THEN 0 ELSE
  Let({i \in 1..(IF Len(a) > Len(b) THEN Len(a) ELSE Len(b)) :
         Limb(a, i) # Limb(b, i)}, LAMBDA diff :
    IF diff = {} THEN 0
    ELSE Let(SetMax(diff), LAMBDA top :
           IF Limb(a, top) < Limb(b, top) THEN -1 ELSE 1))

\* a + b: limb i receives a carry when some lower limb overflows and every
\* limb between is full
BAdd(a, b) ==
  IF a = << >> THEN b ELSE IF b = << >> THEN a ELSE
  Let((IF Len(a) > Len(b) THEN Len(a) ELSE Len(b)) + 1, LAMBDA n :
    Let(Tup([i \in 1..n |-> Limb(a, i) + Limb(b, i)]), LAMBDA s :
      Call("BNorm", <<[i \in 1..n |->
               (s[i] + (IF \E j \in 1..(i - 1) :
                             /\ s[j] >= LimbBase
                             /\ \A k \in (j + 1)..(i - 1) :
                                  s[k] = LimbBase - 1
                        THEN 1 ELSE 0)) % LimbBase]>>)))

\* a - b for a >= b: the borrows found the same way
BSub(a, b) ==
  IF b = << >> THEN a ELSE
  Let(Len(a), LAMBDA n :
    Let(Tup([i \in 1..n |-> Limb(a, i) - Limb(b, i)]), LAMBDA d :
      Call("BNorm", <<[i \in 1..n |->
               (d[i] - (IF \E j \in 1..(i - 1) :
                             /\ d[j] < 0
                             /\ \A k \in (j + 1)..(i - 1) : d[k] = 0
                        THEN 1 ELSE 0)) % LimbBase]>>)))

BShiftLimbs(a, n) ==
  IF a = << >> THEN a ELSE [i \in 1..n |-> 0] \o a

\* a * k for 0 <= k < 2^17: each limb product is split into three limbs
BMulSmall(a, k) ==
  IF a = << >> \/ k = 0 THEN << >> ELSE
  Let(Tup([i \in 1..Len(a) |-> a[i] * k]), LAMBDA p :
    Call("BAdd", <<Call("BAdd", <<Call("BNorm", <<[i \in 1..Len(p) |-> p[i] % LimbBase]>>),
              Call("BShiftLimbs", <<Call("BNorm", <<[i \in 1..Len(p) |->
                                   (p[i] \div LimbBase) % LimbBase]>>), 1>>)>>),
         Call("BShiftLimbs", <<Call("BNorm", <<[i \in 1..Len(p) |->
                              p[i] \div (LimbBase * LimbBase)]>>), 2>>)>>))

\* a * b: one partial product per limb of b
RECURSIVE BMulFrom(_, _, _)
BMulFrom(a, b, j) ==
  IF j > Len(b) THEN << >>
  ELSE Call("BAdd", <<Call("BShiftLimbs", <<Call("BMulSmall", <<a, b[j]>>), j - 1>>), Call("BMulFrom", <<a, b, j + 1>>)>>)

BMul(a, b) == Call("BMulFrom", <<a, b, 1>>)

IntBitLen(n) == Cardinality({k \in 0..(LimbBits - 1) : Call("Pow2", <<k>>) <= n})

BBitLen(a) ==
  IF a = << >> THEN 0 ELSE LimbBits * (Len(a) - 1) + Call("IntBitLen", <<a[Len(a)]>>)

\* a * 2^s
BShl(a, s) ==
  IF a = << >> \/ s = 0 THEN a ELSE
  Let(s % LimbBits, LAMBDA j :
    Call("BShiftLimbs", <<Call("BNorm", <<[i \in 1..(Len(a) + 1) |->
                         ((Limb(a, i) * Call("Pow2", <<j>>)) % LimbBase)
                           + (Limb(a, i - 1) \div Call("Pow2", <<LimbBits - j>>))]>>),
                s \div LimbBits>>))

\* floor(a / 2^s)
BShr(a, s) ==
  IF a = << >> \/ s = 0 THEN a
  ELSE IF s \div LimbBits >= Len(a) THEN << >>
  ELSE Let(s \div LimbBits, LAMBDA q :
         Let(s % LimbBits, LAMBDA j :
           Call("BNorm", <<[i \in 1..(Len(a) - q) |->
                    (Limb(a, i + q) \div Call("Pow2", <<j>>))
                      + ((Limb(a, i + q + 1) % Call("Pow2", <<j>>))
                           * Call("Pow2", <<LimbBits - j>>))]>>)))

\* bit i (0 = least significant) of a
BBit(a, i) == (Limb(a, (i \div LimbBits) + 1) \div Call("Pow2", <<i % LimbBits>>)) % 2

\* the number of trailing zero bits of a # 0
BTrailingZeros(a) ==
  Let(SetMin({i \in 1..Len(a) : a[i] # 0}), LAMBDA f :
    LimbBits * (f - 1)
      + Cardinality({k \in 1..(LimbBits - 1) : a[f] % Call("Pow2", <<k>>) = 0}))

\* <<quotient, remainder>> of a by b, where the top limb of b is at least
\* LimbBase / 2: long division, one limb of a at a time from limb i down
\* with running remainder r < b.  The trial quotient limb taken from the
\* two leading limbs is at most 2 too large (Knuth 4.3.1, Theorem B).
BQuotLimb(r, b) ==
  IF Call("BCmp", <<r, b>>) < 0 THEN 0 ELSE
  Let((Limb(r, Len(b) + 1) * LimbBase + Limb(r, Len(b))) \div b[Len(b)],
      LAMBDA est :
    Let(IF est > LimbBase - 1 THEN LimbBase - 1 ELSE est, LAMBDA q0 :
      IF Call("BCmp", <<Call("BMulSmall", <<b, q0>>), r>>) <= 0 THEN q0
      ELSE IF Call("BCmp", <<Call("BMulSmall", <<b, q0 - 1>>), r>>) <= 0 THEN q0 - 1
      ELSE q0 - 2))

\* q collects the quotient limbs found so far, leading zero limbs skipped
RECURSIVE BDivModFrom(_, _, _, _, _)
BDivModFrom(a, b, i, q, r) ==
  IF i = 0 THEN <<q, r>>
  ELSE Let(Call("BNorm", <<<<a[i]>> \o r>>), LAMBDA r2 :
         Let(Call("BQuotLimb", <<r2, b>>), LAMBDA qd :
           Let(Call("BSub", <<r2, Call("BMulSmall", <<b, qd>>)>>), LAMBDA r3 :
             IF qd = 0 /\ q = << >>
               THEN Call("BDivModFrom", <<a, b, i - 1, << >>, r3>>)
               ELSE Call("BDivModFrom", <<a, b, i - 1, <<qd>> \o q, r3>>))))

\* <<quotient, remainder>> of a by b # 0
BDivMod(a, b) ==
  IF Call("BCmp", <<a, b>>) < 0 THEN <<<< >>, a>> ELSE
  Let(LimbBits * Len(b) - Call("BBitLen", <<b>>), LAMBDA sh :
    Let(Call("BShl", <<a, sh>>), LAMBDA a2 :
      Let(Call("BDivModFrom", <<a2, Call("BShl", <<b, sh>>), Len(a2), << >>, << >>>>), LAMBDA qr :
        << qr[1], Call("BShr", <<qr[2], sh>>) >>)))


(***************************************************************************)
(* IEEE-754 binary64 values (JavaScript Number).  A finite double is       *)
(* [neg, m, e] with value (-1)^neg * m * 2^e, m odd (or << >> for zero,    *)
(* with e = 0), so equal numbers have equal representations.  NaN is a     *)
(* separate value.  The exponent range is never left by the grid           *)
(* arithmetic (all magnitudes are between 2^-7 and 2^14).                  *)
(***************************************************************************)
MantBits == 53

NaN == [nan |-> TRUE]

DZero == [neg |-> FALSE, m |-> << >>, e |-> 0]

\* strip the trailing zero bits of n, adding them to e
DCanon(neg, n, e) ==
  IF n = << >> THEN DZero
  ELSE Let(Call("BTrailingZeros", <<n>>), LAMBDA tz :
         [neg |-> neg, m |-> Call("BShr", <<n, tz>>), e |-> e + tz])

\* the double nearest to n * 2^e (plus a positive fraction of 2^e when
\* sticky), ties to even
DRound(neg, n, e, sticky) ==
  IF n = << >> THEN DZero ELSE
  Let(Call("BBitLen", <<n>>) - MantBits, LAMBDA sh :
    IF sh <= 0 THEN Call("DCanon", <<neg, n, e>>)
    ELSE Let(Call("BShr", <<n, sh>>), LAMBDA q :
           Let(Call("BCmp", <<Call("BSub", <<n, Call("BShl", <<q, sh>>)>>), Call("BShl", <<<<1>>, sh - 1>>)>>), LAMBDA c :
             Call("DCanon", <<neg,
                    IF \/ c > 0
                       \/ c = 0 /\ sticky
                       \/ c = 0 /\ ~sticky /\ Call("BBit", <<q, 0>>) = 1
                      THEN Call("BAdd", <<q, <<1>>>>) ELSE q,
                    e + sh>>))))

DFromInt(k) ==
  IF k < 0 THEN Call("DCanon", <<TRUE, Call("BFromInt", <<-k>>), 0>>) ELSE Call("DCanon", <<FALSE, Call("BFromInt", <<k>>), 0>>)


\* 10^d as a big natural, four digits at a time
RECURSIVE BPow10(_)
BPow10(d) ==
  IF d < 4 THEN <<(<<1, 10, 100, 1000>>)[d + 1]>>
  ELSE Call("BMulSmall", <<Call("BPow10", <<d - 4>>), 10000>>)

\* the double nearest to the decimal n / 10^d (n a big natural): what the
\* number parsers (JSON.parse, source literals, parseFloat) return for the
\* digits of n with the point d places from the right
DFromDecimalBig(neg, n, d) ==
  IF n = << >> THEN DZero ELSE
  Let(Call("BPow10", <<d>>), LAMBDA p :
    Let((MantBits + 3) + Call("BBitLen", <<p>>) - Call("BBitLen", <<n>>), LAMBDA need :
      Let(IF need < 0 THEN 0 ELSE need, LAMBDA s :
        Let(Call("BDivMod", <<Call("BShl", <<n, s>>), p>>), LAMBDA qr :
          Call("DRound", <<neg, qr[1], -s, qr[2] # << >>>>)))))

DFromDecimal(n, d) ==
  Call("DFromDecimalBig", <<n < 0, Call("BFromInt", <<IF n < 0 THEN -n ELSE n>>), d>>)

\* magnitudes aligned to the smaller exponent
DAlign(x, y) ==
  Let(IF x.e < y.e THEN x.e ELSE y.e, LAMBDA e :
    <<Call("BShl", <<x.m, x.e - e>>), Call("BShl", <<y.m, y.e - e>>), e>>)

DCmpMag(x, y) == Let(Call("DAlign", <<x, y>>), LAMBDA a : Call("BCmp", <<a[1], a[2]>>))

\* x < y, x <= y; every comparison with NaN is false
DLt(x, y) ==
  /\ x # NaN /\ y # NaN
  /\ IF x.neg /\ ~y.neg THEN x.m # << >> \/ y.m # << >>
     ELSE IF ~x.neg /\ y.neg THEN FALSE
     ELSE IF x.neg THEN Call("DCmpMag", <<x, y>>) > 0
     ELSE Call("DCmpMag", <<x, y>>) < 0

DLe(x, y) ==
  /\ x # NaN /\ y # NaN
  /\ (Call("DLt", <<x, y>>) \/ (x.m = y.m /\ x.e = y.e /\ (x.neg = y.neg \/ x.m = << >>)))

DGe(x, y) == Call("DLe", <<y, x>>)

DMax(x, y) == IF Call("DLt", <<x, y>>) THEN y ELSE x   \* Math.max on finite numbers
DMin(x, y) == IF Call("DLt", <<y, x>>) THEN y ELSE x   \* Math.min on finite numbers

\* x + y, x * y, x / y for x, y >= 0 (y > 0 for the quotient); NaN if an
\* operand is NaN
DAdd(x, y) ==
  IF x = NaN \/ y = NaN THEN NaN ELSE
  Let(Call("DAlign", <<x, y>>), LAMBDA a : Call("DRound", <<FALSE, Call("BAdd", <<a[1], a[2]>>), a[3], FALSE>>))

DMul(x, y) ==
  IF x = NaN \/ y = NaN THEN NaN
  ELSE Call("DRound", <<FALSE, Call("BMul", <<x.m, y.m>>), x.e + y.e, FALSE>>)

DDiv(x, y) ==
  IF x = NaN \/ y = NaN THEN NaN
  ELSE IF x.m = << >> THEN DZero ELSE
  Let((MantBits + 3) + Call("BBitLen", <<y.m>>) - Call("BBitLen", <<x.m>>), LAMBDA need :
    Let(IF need < 0 THEN 0 ELSE need, LAMBDA s :
      Let(Call("BDivMod", <<Call("BShl", <<x.m, s>>), y.m>>), LAMBDA qr :
        Call("DRound", <<FALSE, qr[1], x.e - y.e - s, qr[2] # << >>>>))))

\* Math.floor of a finite x >= 0, as an integer
DFloor(x) ==
  IF x.e >= 0 THEN Call("BToInt", <<Call("BShl", <<x.m, x.e>>)>>) ELSE Call("BToInt", <<Call("BShr", <<x.m, -x.e>>)>>)

\* Number.prototype.toFixed(digits) of a finite x >= 0: the integer n for
\* which n / 10^digits - x is closest to zero, the larger n on a tie; the
\* string is n written with `digits` decimals
ToFixed(x, digits) ==
  Let(Call("BMul", <<x.m, Call("BPow10", <<digits>>)>>), LAMBDA t :
    IF x.e >= 0 THEN Call("BToInt", <<Call("BShl", <<t, x.e>>)>>)
    ELSE Call("BToInt", <<Call("BShr", <<t, -x.e>>)>>) + Call("BBit", <<t, (-x.e) - 1>>))


(***************************************************************************)
(* Strings of numbers.  A decimal string is [neg, n, d]: the digits of the *)
(* big natural n with the point d places from the right, n not ending in   *)
(* 0 when d > 0 ("25.033" is n = 25033, d = 3).  Any other text is         *)
(* [txt |-> ...].                                                          *)
(***************************************************************************)
MaxFractionDigits == 20

\* floor(x * 10^d) for a finite x >= 0
BScaledFloor(x, d) ==
  Let(Call("BMul", <<x.m, Call("BPow10", <<d>>)>>), LAMBDA t :
    IF x.e >= 0 THEN Call("BShl", <<t, x.e>>) ELSE Call("BShr", <<t, -x.e>>))

\* |n / 10^d - x| compared for the two candidates lo = n, hi = n + 1:
\* TRUE when hi is strictly closer to x than lo
HiCloser(x, lo, d) ==
  Let(IF x.e >= 0 THEN 0 ELSE -x.e, LAMBDA sh :
    \* x * 10^d = t * 2^x.e; frac = (x * 10^d - lo) * 2^sh
    Let(BMul(x.m, BPow10(d)), LAMBDA t :
      Let(BSub(IF x.e >= 0 THEN BShl(t, x.e) ELSE t, BShl(lo, sh)),
          LAMBDA frac :
        BCmp(BMulSmall(frac, 2), BShl(<<1>>, sh)) > 0)))

\* x reads back from floor(x * 10^d) or from that plus one, d decimals
ReadsBack(x, d) ==
  Let(Call("BScaledFloor", <<x, d>>), LAMBDA lo :
    \/ Call("DFromDecimalBig", <<FALSE, lo, d>>) = x
    \/ Call("DFromDecimalBig", <<FALSE, Call("BAdd", <<lo, <<1>>>>), d>>) = x)

\* Number::toString(x) for a finite x >= 0 printed without exponent: the
\* fewest digits that read back as x, the closest to x among those
NumberToString(x) ==
  Let(CHOOSE k \in 0..MaxFractionDigits :
        /\ Call("ReadsBack", <<x, k>>)
        /\ (k = 0 \/ ~Call("ReadsBack", <<x, k - 1>>)), LAMBDA d :
    Let(Call("BScaledFloor", <<x, d>>), LAMBDA lo :
      Let(Call("BAdd", <<lo, <<1>>>>), LAMBDA hi :
        IF /\ Call("DFromDecimalBig", <<FALSE, lo, d>>) = x
           /\ \/ Call("DFromDecimalBig", <<FALSE, hi, d>>) # x
              \/ ~Call("HiCloser", <<x, lo, d>>)
          THEN [neg |-> FALSE, n |-> lo, d |-> d]
          ELSE [neg |-> FALSE, n |-> hi, d |-> d])))

\* parseFloat: the number of the decimal numeral a string starts with
\* (what follows the numeral is not read), NaN for text that starts with
\* no numeral (and for `undefined`, the missing second part of a split)
parseFloat(str) ==
  IF "txt" \in DOMAIN str THEN NaN
  ELSE Call("DFromDecimalBig", <<str.neg, str.n, str.d>>)

isNaN(x) == x = NaN

\* the decimal string of the literal n / 10^d as a client writes it
Lit(n, d) == Call("NumberToString", <<Call("DFromDecimal", <<n, d>>)>>)


(***************************************************************************)
(* The grid utility (lib/utils/gridUtils).                                 *)
(*                                                                         *)
(* The source region is 21.5..25.5 x 119.0..122.5 degrees: 446 x 350       *)
(* cells, too many to enumerate in every state.  The model keeps the cell  *)
(* size and moves the four bounds to a window of that region around        *)
(* Taipei, 15 x 14 cells, chosen so that each bound sits on the grid as    *)
(* the source bound does:                                                  *)
(*   minLat 25.028 is 0.008 above a cell row (21.5 is 0.008 above 21.492), *)
(*   maxLat 25.149 is 0.003 above a cell row (25.5 is 0.003 above 25.497), *)
(*   minLon and maxLon are cell columns          (as 119.0 and 122.5 are). *)
(* The window holds more than 200 cells, so that one cell is less than     *)
(* half a percent of the region, as in the source region.                  *)
(* The four Win* numbers are thousandths (latitude) and hundredths         *)
(* (longitude) of a degree.                                                *)
(***************************************************************************)
WinMinLatMilli == 25028
WinMaxLatMilli == 25149
WinMinLonCenti == 12156
WinMaxLonCenti == 12170

TAIWAN_BOUNDS ==
  [minLat |-> Call("DFromDecimal", <<WinMinLatMilli, 3>>),
   maxLat |-> Call("DFromDecimal", <<WinMaxLatMilli, 3>>),
   minLon |-> Call("DFromDecimal", <<WinMinLonCenti, 2>>),
   maxLon |-> Call("DFromDecimal", <<WinMaxLonCenti, 2>>)]

GRID_SIZE_LAT == Call("DFromDecimal", <<9, 3>>)
GRID_SIZE_LON == Call("DFromDecimal", <<1, 2>>)

null == [null |-> TRUE]

\* isInTaiwanBounds with the two upper bounds exclusive
isInTaiwanBoundsExclusive(lat, lon) ==
  /\ Call("DGe", <<lat, TAIWAN_BOUNDS.minLat>>)
  /\ Call("DLt", <<lat, TAIWAN_BOUNDS.maxLat>>)
  /\ Call("DGe", <<lon, TAIWAN_BOUNDS.minLon>>)
  /\ Call("DLt", <<lon, TAIWAN_BOUNDS.maxLon>>)

isInTaiwanBounds(lat, lon) ==
  /\ Call("DGe", <<lat, TAIWAN_BOUNDS.minLat>>)
  /\ Call("DLe", <<lat, TAIWAN_BOUNDS.maxLat>>)
  /\ Call("DGe", <<lon, TAIWAN_BOUNDS.minLon>>)
  /\ Call("DLe", <<lon, TAIWAN_BOUNDS.maxLon>>)

\* the id with the longitude written with one decimal
GridIdStringOneDecimal(lat, lon) ==
  [prefix |-> "grid", lat3 |-> Call("ToFixed", <<lat, 3>>),
   lon2 |-> Call("ToFixed", <<lon, 1>>) * 10]

\* `grid_${lat.toFixed(3)}_${lon.toFixed(2)}`: the two fixed-point strings
\* are kept as the integers of their digits ("25.020" is 25020)
GridIdString(lat, lon) ==
  [prefix |-> "grid", lat3 |-> Call("ToFixed", <<lat, 3>>), lon2 |-> Call("ToFixed", <<lon, 2>>)]

coordinateToGridId(lat, lon) ==
  IF ~Call("isInTaiwanBounds", <<lat, lon>>) THEN null
  ELSE LET gridLat == Call("DMul", <<Call("DFromInt", <<Call("DFloor", <<Call("DDiv", <<lat, GRID_SIZE_LAT>>)>>)>>),
                           GRID_SIZE_LAT>>)
           gridLon == Call("DMul", <<Call("DFromInt", <<Call("DFloor", <<Call("DDiv", <<lon, GRID_SIZE_LON>>)>>)>>),
                           GRID_SIZE_LON>>)
       IN  Call("GridIdString", <<gridLat, gridLon>>)

\* the lower-left corner of a grid id.  A string that GridIdString writes
\* is [prefix, lat3, lon2]: three parts, the two numbers as toFixed
\* printed them.  Any other string is [parts |-> the pieces split('_')
\* gives]: a piece is [txt] (text that starts with no number), [neg, n, d]
\* (a decimal numeral) or [neg, n, d, rest] (a decimal numeral followed by
\* other characters, of which parseFloat reads the numeral).
gridIdToCoordinate(gridId) ==
  IF "parts" \in DOMAIN gridId
    THEN IF Len(gridId.parts) # 3 \/ gridId.parts[1] # [txt |-> "grid"]
           THEN null
         ELSE
         Let(Call("parseFloat", <<gridId.parts[2]>>), LAMBDA lat :
           Let(Call("parseFloat", <<gridId.parts[3]>>), LAMBDA lon :
             IF Call("isNaN", <<lat>>) \/ Call("isNaN", <<lon>>) THEN null
             ELSE [lat |-> lat, lon |-> lon]))
  ELSE IF DOMAIN gridId # {"prefix", "lat3", "lon2"} \/ gridId.prefix # "grid"
    THEN null
  ELSE [lat |-> Call("DFromDecimal", <<gridId.lat3, 3>>),
        lon |-> Call("DFromDecimal", <<gridId.lon2, 2>>)]

\* the polygon of a grid id: an array (rings) of one ring of five
\* [lon, lat] points, lower left, upper left, upper right, lower right,
\* lower left
gridIdToBounds(gridId) ==
  Let(Call("gridIdToCoordinate", <<gridId>>), LAMBDA coord :
    IF coord = null THEN null
    ELSE Let(Call("DAdd", <<coord.lat, GRID_SIZE_LAT>>), LAMBDA north :
           Let(Call("DAdd", <<coord.lon, GRID_SIZE_LON>>), LAMBDA east :
             [rings |->
                << << <<coord.lon, coord.lat>>, <<coord.lon, north>>,
                      <<east, north>>, <<east, coord.lat>>,
                      <<coord.lon, coord.lat>> >> >>])))

\* gridIdToCenter with whole steps added
gridIdToCenterWholeStep(gridId) ==
  Let(Call("gridIdToCoordinate", <<gridId>>), LAMBDA coord :
    IF coord = null THEN null
    ELSE [lat |-> Call("DAdd", <<coord.lat, GRID_SIZE_LAT>>),
          lon |-> Call("DAdd", <<coord.lon, GRID_SIZE_LON>>)])

gridIdToCenter(gridId) ==
  Let(Call("gridIdToCoordinate", <<gridId>>), LAMBDA coord :
    IF coord = null THEN null
    ELSE [lat |-> Call("DAdd", <<coord.lat, Call("DDiv", <<GRID_SIZE_LAT, Call("DFromInt", <<2>>)>>)>>),
          lon |-> Call("DAdd", <<coord.lon, Call("DDiv", <<GRID_SIZE_LON, Call("DFromInt", <<2>>)>>)>>)])

\* getVisibleGridIds: the two nested while loops, both ends inclusive
RECURSIVE VisibleRow(_, _, _)
VisibleRow(currentLat, currentLon, maxLon) ==
  IF ~Call("DLe", <<currentLon, maxLon>>) THEN << >>
  ELSE <<Call("GridIdString", <<currentLat, currentLon>>)>> \o
       Call("VisibleRow",
            <<currentLat, Call("DAdd", <<currentLon, GRID_SIZE_LON>>),
              maxLon>>)

RECURSIVE VisibleRows(_, _, _, _)
VisibleRows(currentLat, startGridLon, maxLat, maxLon) ==
  IF ~Call("DLe", <<currentLat, maxLat>>) THEN << >>
  ELSE Call("VisibleRow", <<currentLat, startGridLon, maxLon>>) \o
       Call("VisibleRows",
            <<Call("DAdd", <<currentLat, GRID_SIZE_LAT>>), startGridLon,
              maxLat, maxLon>>)

\* Math.ceil(x / step) * step for an x that is no multiple of step
CeilToStep(x, step) ==
  Call("DMul",
       <<Call("DFromInt",
              <<Call("DFloor", <<Call("DDiv", <<x, step>>)>>) + 1>>),
         step>>)

\* Math.floor(x / step) * step
FloorToStep(x, step) ==
  Call("DMul",
       <<Call("DFromInt", <<Call("DFloor", <<Call("DDiv", <<x, step>>)>>)>>),
         step>>)

\* the viewport clamped to the bounds, the start cell, the loops
getVisibleGridIds(bounds) ==
  Let(Call("DMax", <<bounds.south, TAIWAN_BOUNDS.minLat>>), LAMBDA minLat :
    Let(Call("DMin", <<bounds.north, TAIWAN_BOUNDS.maxLat>>), LAMBDA maxLat :
      Let(Call("DMax", <<bounds.west, TAIWAN_BOUNDS.minLon>>), LAMBDA minLon :
        Let(Call("DMin", <<bounds.east, TAIWAN_BOUNDS.maxLon>>),
            LAMBDA maxLon :
          Call("VisibleRows",
               <<Call("FloorToStep", <<minLat, GRID_SIZE_LAT>>),
                 Call("FloorToStep", <<minLon, GRID_SIZE_LON>>),
                 maxLat, maxLon>>)))))

\* the row built with unshift: the ids from east to west
RECURSIVE AllGridRowReversed(_, _)
AllGridRowReversed(currentLat, currentLon) ==
  IF ~Call("DLt", <<currentLon, TAIWAN_BOUNDS.maxLon>>) THEN << >>
  ELSE AllGridRowReversed(currentLat,
                          Call("DAdd", <<currentLon, GRID_SIZE_LON>>)) \o
       <<Call("GridIdString", <<currentLat, currentLon>>)>>

\* getAllTaiwanGridIds without its cache: the two nested while loops
RECURSIVE AllGridRow(_, _)
AllGridRow(currentLat, currentLon) ==
  IF ~Call("DLt", <<currentLon, TAIWAN_BOUNDS.maxLon>>) THEN << >>
  ELSE <<Call("GridIdString", <<currentLat, currentLon>>)>> \o
       Call("AllGridRow", <<currentLat, Call("DAdd", <<currentLon, GRID_SIZE_LON>>)>>)

RECURSIVE AllGridRows(_, _)
AllGridRows(currentLat, startGridLon) ==
  IF ~Call("DLt", <<currentLat, TAIWAN_BOUNDS.maxLat>>) THEN << >>
  ELSE Call("AllGridRow", <<currentLat, startGridLon>>) \o
       Call("AllGridRows", <<Call("DAdd", <<currentLat, GRID_SIZE_LAT>>), startGridLon>>)

\* the loops started at (minLat, minLon) as given, not floored
AllGridIdsFromBounds(bounds) ==
  Call("AllGridRows", <<bounds.minLat, bounds.minLon>>)

\* the start of the loops: the south-west corner of the cell of
\* (minLat, minLon)
AllGridIdsOf(bounds) ==
  Call("AllGridRows",
       <<Call("DMul",
              <<Call("DFromInt",
                     <<Call("DFloor",
                            <<Call("DDiv",
                                   <<bounds.minLat, GRID_SIZE_LAT>>)>>)>>),
                GRID_SIZE_LAT>>),
         Call("DMul",
              <<Call("DFromInt",
                     <<Call("DFloor",
                            <<Call("DDiv",
                                   <<bounds.minLon, GRID_SIZE_LON>>)>>)>>),
                GRID_SIZE_LON>>)>>)

ComputeAllTaiwanGridIds == Call("AllGridIdsOf", <<TAIWAN_BOUNDS>>)

\* getAllTaiwanGridIds pushing into the cached array
getAllTaiwanGridIdsAppending(cache) ==
  IF cache # null THEN cache \o ComputeAllTaiwanGridIds
  ELSE ComputeAllTaiwanGridIds

\* getAllTaiwanGridIds: the cached list when there is one, else the list
\* computed anew; the caller's step stores what is returned in the cache
getAllTaiwanGridIds(cache) ==
  IF cache # null THEN cache ELSE ComputeAllTaiwanGridIds


(***************************************************************************)
(* Footprint rows and their coordinate strings.                            *)
(*                                                                         *)
(* A coordinate string is [parts |-> the texts between its commas], which  *)
(* is what split(',') returns; a part is a decimal string or other text.   *)
(* A row without coordinate has coordinate = null.                         *)
(***************************************************************************)
\* `${lat},${lon}`
CoordinateString(lat, lon) ==
  [parts |-> <<Call("NumberToString", <<lat>>), Call("NumberToString", <<lon>>)>>]

\* the empty string: falsy, and split(',') gives one empty part
EmptyString == [parts |-> <<[txt |-> ""]>>]

undefined == [txt |-> "undefined"]

\* const [latStr, lonStr] = coordinate.split(','): element i, undefined
\* when the string has fewer parts
SplitPart(coordinate, i) ==
  IF i <= Len(coordinate.parts) THEN coordinate.parts[i] ELSE undefined

\* the body of the forEach callbacks of the three GET handlers for a
\* non-empty coordinate: the grid id the row counts for, null when the row
\* is skipped
ParsedGridId(coordinate) ==
  Let(Call("parseFloat", <<Call("SplitPart", <<coordinate, 1>>)>>), LAMBDA lat :
    Let(Call("parseFloat", <<Call("SplitPart", <<coordinate, 2>>)>>), LAMBDA lon :
      IF Call("isNaN", <<lat>>) \/ Call("isNaN", <<lon>>) THEN null
      ELSE Call("coordinateToGridId", <<lat, lon>>)))



MaxRequests == 2   \* handler runs that may overlap
MaxClock == 3      \* rows written (created or touched) in one behaviour

Users == {"u1", "u2"}
NoSession == ""    \* auth() returned no session or no user id
Sessions == Users \cup {NoSession}
Requests == 1..MaxRequests

\* a JSON number of a request body is written with four decimals
BodyDigits == 4
IsNumber(v) == "num" \in DOMAIN v
JsonNumber(v) == Call("DFromDecimal", <<v.num, BodyDigits>>)
NumberBody(lat4, lon4) == [lat |-> [num |-> lat4], lon |-> [num |-> lon4]]

\* the bodies clients send: two fixes inside one cell, a fix on the
\* northern bound of the region, a fix outside the region, and a body
\* whose lat is a string
Bodies ==
  { NumberBody(250330, 1215654), NumberBody(250335, 1215658),
    NumberBody(WinMaxLatMilli * 10, 1215654),
    NumberBody(0, 0),
    [lat |-> [str |-> "25.033"], lon |-> [num |-> 1215654]] }

\* prisma.footprint.create: a new row, its times set to now
FootprintCreate(table, userId, coordinate, now) ==
  Append(table, [id |-> Len(table) + 1, user_id |-> userId,
                 coordinate |-> coordinate,
                 Create_time |-> now, Update_time |-> now])

\* an update that writes the whole row anew and leaves out its coordinate
FootprintUpdateWithoutCoordinate(table, id, now) ==
  [i \in 1..Len(table) |->
     IF table[i].id = id
       THEN [table[i] EXCEPT !.Update_time = now, !.coordinate = null]
     ELSE table[i]]

\* prisma.footprint.update({ where: { id }, data: { Update_time } })
FootprintUpdate(table, id, now) ==
  [i \in 1..Len(table) |->
     IF table[i].id = id THEN [table[i] EXCEPT !.Update_time = now]
     ELSE table[i]]

\* findFirst that looks for the coordinate among the rows of every user
FindFirstMatchesOfAnyUser(table, userId, coordinate) ==
  {table[i] : i \in {j \in 1..Len(table) :
                       table[j].coordinate = coordinate}}

\* the rows findFirst({ where: { user_id, coordinate } }) may return
FindFirstMatches(table, userId, coordinate) ==
  {table[i] : i \in {j \in 1..Len(table) :
                       /\ table[j].user_id = userId
                       /\ table[j].coordinate = coordinate}}

\* findMany({ where: { user_id, coordinate: { not: null } } })
FindMany(table, userId) ==
  SelectSeq(table, LAMBDA f : f.user_id = userId /\ f.coordinate # null)

Rejected(status, error) == [ok |-> FALSE, status |-> status, error |-> error]

\* POST explore-grid storing the coordinate of the body, not the center
ExploreGridInputRawCoordinate(body) ==
  IF ~IsNumber(body.lat) \/ ~IsNumber(body.lon)
    THEN Rejected(400, "coordinate format error")
  ELSE
  Let(Call("JsonNumber", <<body.lat>>), LAMBDA lat :
    Let(Call("JsonNumber", <<body.lon>>), LAMBDA lon :
      IF ~Call("isInTaiwanBounds", <<lat, lon>>)
        THEN Rejected(400, "coordinate not in Taiwan bounds")
      ELSE [ok |-> TRUE, gridId |-> Call("coordinateToGridId", <<lat, lon>>),
            coordinate |-> Call("CoordinateString", <<lat, lon>>)]))

\* POST /api/footprint/explore-grid from the body to the coordinate string
ExploreGridInput(body) ==
  IF ~IsNumber(body.lat) \/ ~IsNumber(body.lon)
    THEN Rejected(400, "coordinate format error")
  ELSE
  Let(Call("JsonNumber", <<body.lat>>), LAMBDA lat :
    Let(Call("JsonNumber", <<body.lon>>), LAMBDA lon :
      IF ~Call("isInTaiwanBounds", <<lat, lon>>)
        THEN Rejected(400, "coordinate not in Taiwan bounds")
      ELSE
      Let(Call("coordinateToGridId", <<lat, lon>>), LAMBDA gridId :
        IF gridId = null THEN Rejected(400, "cannot compute grid id")
        ELSE
        Let(Call("gridIdToCenter", <<gridId>>), LAMBDA center :
          IF center = null
            THEN Rejected(400, "cannot compute grid center")
          ELSE [ok |-> TRUE, gridId |-> gridId,
                coordinate |->
                  Call("CoordinateString", <<center.lat, center.lon>>)]))))

\* POST mist-percentage without the test of the grid id
MistPostInputUnchecked(body) ==
  IF ~IsNumber(body.lat) \/ ~IsNumber(body.lon)
    THEN Rejected(400, "invalid coordinate")
  ELSE
  Let(Call("JsonNumber", <<body.lat>>), LAMBDA lat :
    Let(Call("JsonNumber", <<body.lon>>), LAMBDA lon :
      [ok |-> TRUE, gridId |-> Call("coordinateToGridId", <<lat, lon>>),
       coordinate |-> Call("CoordinateString", <<lat, lon>>)]))

\* POST /api/footprint/mist-percentage from the body to the coordinate string
MistPostInput(body) ==
  IF ~IsNumber(body.lat) \/ ~IsNumber(body.lon)
    THEN Rejected(400, "invalid coordinate")
  ELSE
  Let(Call("JsonNumber", <<body.lat>>), LAMBDA lat :
    Let(Call("JsonNumber", <<body.lon>>), LAMBDA lon :
      Let(Call("coordinateToGridId", <<lat, lon>>), LAMBDA gridId :
        IF gridId = null
          THEN Rejected(400, "coordinate not in Taiwan bounds")
        ELSE [ok |-> TRUE, gridId |-> gridId,
              coordinate |-> Call("CoordinateString", <<lat, lon>>)])))

\* the two functions over the bodies of the model, computed once
ExploreGridInputs ==
  [b \in Bodies |-> Call("ExploreGridInput", <<b>>)] @@ << >>
MistPostInputs ==
  [b \in Bodies |-> Call("MistPostInput", <<b>>)] @@ << >>

(***************************************************************************)
(* Tables a read may meet.  The handlers of the model write rows for       *)
(* Bodies only; a table may also hold rows written before (any fix inside  *)
(* the region, posted to mist-percentage) and rows whose coordinate no     *)
(* handler writes (legacy or imported rows: text, one number, the empty    *)
(* string, no coordinate).                                                 *)
(***************************************************************************)
\* coordinateToGridId of a coordinate given in ten-thousandths of a degree
FixGridId(fix) ==
  Call("coordinateToGridId",
       <<Call("DFromDecimal", <<fix.lat4, BodyDigits>>),
         Call("DFromDecimal", <<fix.lon4, BodyDigits>>)>>)

\* Math.floor(lat / GRID_SIZE_LAT) and Math.floor(lon / GRID_SIZE_LON)
FixFloors(fix) ==
  [lat |-> Call("DFloor",
                <<Call("DDiv", <<Call("DFromDecimal", <<fix.lat4, BodyDigits>>),
                                 GRID_SIZE_LAT>>)>>),
   lon |-> Call("DFloor",
                <<Call("DDiv", <<Call("DFromDecimal", <<fix.lon4, BodyDigits>>),
                                 GRID_SIZE_LON>>)>>)]

\* the id of a coordinate, the corner parsed from the id, and the id of
\* that corner
CornerRoundTrip(fix) ==
  Let(Call("FixGridId", <<fix>>), LAMBDA gridId :
    IF gridId = null
      THEN [applied |-> "gridIdToCoordinate", gridId |-> null,
            corner |-> null, again |-> null]
    ELSE Let(Call("gridIdToCoordinate", <<gridId>>), LAMBDA corner :
           [applied |-> "gridIdToCoordinate", gridId |-> gridId,
            corner |-> corner,
            again |-> IF corner = null THEN null
                      ELSE Call("coordinateToGridId",
                                <<corner.lat, corner.lon>>)]))

\* the id of a coordinate with the center and the polygon of the id
CenterAndBounds(fix) ==
  Let(Call("FixGridId", <<fix>>), LAMBDA gridId :
    IF gridId = null
      THEN [applied |-> "gridIdToCenter", gridId |-> null, center |-> null,
            bounds |-> null]
    ELSE [applied |-> "gridIdToCenter", gridId |-> gridId,
          center |-> Call("gridIdToCenter", <<gridId>>),
          bounds |-> Call("gridIdToBounds", <<gridId>>)])

\* the corner, the center and the polygon of one grid id string
IdShapes(gridId) ==
  [applied |-> "gridIdToBounds",
   corner |-> Call("gridIdToCoordinate", <<gridId>>),
   center |-> Call("gridIdToCenter", <<gridId>>),
   bounds |-> Call("gridIdToBounds", <<gridId>>)]

\* the grid id of a coordinate and what getAllTaiwanGridIds returns
GridIdAndAllGridIds(fix, cache) ==
  [gridId |-> Call("FixGridId", <<fix>>),
   allGridIds |-> Call("getAllTaiwanGridIds", <<cache>>)]

\* the map bounds of a viewport given in ten-thousandths of a degree
FixBounds(viewport) ==
  [north |-> Call("DFromDecimal", <<viewport.north, BodyDigits>>),
   south |-> Call("DFromDecimal", <<viewport.south, BodyDigits>>),
   east |-> Call("DFromDecimal", <<viewport.east, BodyDigits>>),
   west |-> Call("DFromDecimal", <<viewport.west, BodyDigits>>)]

\* getVisibleGridIds on those bounds
FixVisibleGridIds(viewport) ==
  Call("getVisibleGridIds", <<Call("FixBounds", <<viewport>>)>>)

\* the callback of gridIds.map in gridIdsToGeoJSON: the feature of one
\* grid id, null when the id has no polygon
GridFeature(gridId) ==
  Let(Call("gridIdToBounds", <<gridId>>), LAMBDA bounds :
    IF bounds = null THEN null
    ELSE [type |-> "Feature", properties |-> [gridId |-> gridId],
          geometry |-> [type |-> "Polygon", coordinates |-> bounds.rings]])

\* gridIdsToGeoJSON: map, then filter of the nulls
gridIdsToGeoJSON(gridIds) ==
  [type |-> "FeatureCollection",
   features |->
     SelectSeq(Tup([i \in 1..Len(gridIds) |->
                      Call("GridFeature", <<gridIds[i]>>)]),
               LAMBDA f : f # null)]

\* FogLayer, the first useMemo: the ids of the map bounds, none while the
\* bounds are not known
visibleGridIds(mapBounds) ==
  IF mapBounds = null THEN << >>
  ELSE Call("getVisibleGridIds", <<mapBounds>>)

\* the filter kept the explored ids
exploredVisibleGridIds(visible, explored) ==
  IF Len(visible) = 0 THEN << >>
  ELSE SelectSeq(visible, LAMBDA gridId : gridId \in explored)

\* FogLayer, the second useMemo: the visible ids that exploredGridIds
\* does not have
unexploredGridIds(visible, explored) ==
  IF Len(visible) = 0 THEN << >>
  ELSE SelectSeq(visible, LAMBDA gridId : ~(gridId \in explored))

\* FogLayer, the third useMemo: the GeoJSON handed to the map, null when
\* nothing is fogged
fogGeoJSON(unexplored) ==
  IF Len(unexplored) = 0 THEN null
  ELSE Call("gridIdsToGeoJSON", <<unexplored>>)

\* FogLayer for map bounds given in ten-thousandths of a degree (null
\* before the first update of the bounds) and a set of explored ids
FogLayer(viewport, explored) ==
  Let(Call("visibleGridIds",
           <<IF viewport = null THEN null
             ELSE Call("FixBounds", <<viewport>>)>>), LAMBDA visible :
    Let(Call("unexploredGridIds", <<visible, explored>>), LAMBDA unexplored :
      [applied |-> "FogLayer", visibleGridIds |-> visible,
       unexploredGridIds |-> unexplored,
       fogGeoJSON |-> Call("fogGeoJSON", <<unexplored>>)]))

\* the coordinate POST mist-percentage stores for the fix lat4, lon4
\* (ten-thousandths of a degree)
RawCoordinate(lat4, lon4) ==
  Call("CoordinateString", <<Call("DFromDecimal", <<lat4, BodyDigits>>),
                   Call("DFromDecimal", <<lon4, BodyDigits>>)>>)

Row(userId, coordinate) ==
  [id |-> 0, user_id |-> userId, coordinate |-> coordinate,
   Create_time |-> 0, Update_time |-> 0]

\* fixes of u1: two in one cell, one on a cell's west edge, one in another
\* cell, one on the region's east edge, the region's north-east corner,
\* one outside the region
SeedFixes ==
  { <<250330, 1215654>>, <<250335, 1215658>>, <<250330, 1215700>>,
    <<250400, 1216000>>, <<250330, WinMaxLonCenti * 100>>,
    <<WinMaxLatMilli * 10, WinMaxLonCenti * 100>>, <<0, 0>> }

SeedRows ==
  {Row("u1", Call("RawCoordinate", <<f[1], f[2]>>)) : f \in SeedFixes} \cup
  { Row("u2", Call("RawCoordinate", <<250400, 1216000>>)),
    Row("u1", [parts |-> <<[txt |-> "abc"]>>]),
    Row("u1", [parts |-> <<Call("Lit", <<250330, BodyDigits>>)>>]),
    Row("u1", EmptyString),
    Row("u1", null) }

\* u1 has posted one fix inside every cell of getAllTaiwanGridIds: the
\* cell's corner moved half a cell east, and north into the region when
\* the corner is south of it
FullVisitFix(gridId) ==
  [lat4 |-> IF gridId.lat3 * 10 < WinMinLatMilli * 10
              THEN WinMinLatMilli * 10 ELSE gridId.lat3 * 10,
   lon4 |-> gridId.lon2 * 100 + 50]

\* the rows of those fixes, the text of each number (what RawCoordinate
\* writes) computed once per number
FullVisitsOf(all) ==
  Let([n \in {FullVisitFix(all[i]).lat4 : i \in 1..Len(all)} \cup
              {FullVisitFix(all[i]).lon4 : i \in 1..Len(all)} |->
         Call("Lit", <<n, BodyDigits>>)] @@ << >>,
      LAMBDA texts :
    [i \in 1..Len(all) |->
       Row("u1", [parts |-> <<texts[FullVisitFix(all[i]).lat4],
                              texts[FullVisitFix(all[i]).lon4]>>])])

FullVisits == Call("FullVisitsOf", <<ComputeAllTaiwanGridIds>>)

\* ParsedGridId over the coordinates of the model, computed once
KnownCoordinates ==
  ({r.coordinate : r \in SeedRows} \ {null}) \cup
  {FullVisits[i].coordinate : i \in 1..Len(FullVisits)} \cup
  {ExploreGridInputs[b].coordinate :
     b \in {x \in Bodies : ExploreGridInputs[x].ok}} \cup
  {MistPostInputs[b].coordinate :
     b \in {x \in Bodies : MistPostInputs[x].ok}}

KnownGridIds ==
  [c \in KnownCoordinates |-> Call("ParsedGridId", <<c>>)] @@ << >>

GridIdOf(coordinate) ==
  IF coordinate \in KnownCoordinates THEN KnownGridIds[coordinate]
  ELSE Call("ParsedGridId", <<coordinate>>)


\* GET /api/footprint/explored-grids after findMany: gridMap, then its
\* entries in the order in which the Map first saw each grid id.  For one
\* grid id the Map keeps the row with the latest Create_time, the earlier
\* row among equals (a row replaces the entry only when strictly newer).
GridMapRows(found) ==
  {i \in 1..Len(found) :
     /\ found[i].coordinate # EmptyString
     /\ Call("GridIdOf", <<found[i].coordinate>>) # null}

GridMapEntry(found, gridId) ==
  Let({i \in Call("GridMapRows", <<found>>) : Call("GridIdOf", <<found[i].coordinate>>) = gridId},
      LAMBDA of :
    Let(CHOOSE i \in of :
          \A j \in of :
            \/ found[j].Create_time < found[i].Create_time
            \/ found[j].Create_time = found[i].Create_time /\ i <= j,
        LAMBDA best :
      [gridId |-> gridId, coordinate |-> found[best].coordinate,
       exploredAt |-> found[best].Create_time]))

ExploredGrids(found) ==
  Let(Call("GridMapRows", <<found>>), LAMBDA rows :
    Let({i \in rows :
           \A j \in rows :
             Call("GridIdOf", <<found[j].coordinate>>) = Call("GridIdOf", <<found[i].coordinate>>)
               => i <= j},
        LAMBDA first :
      [k \in 1..Cardinality(first) |->
         Call("GridMapEntry", <<found,
           Call("GridIdOf", <<found[CHOOSE x \in first :
                            Cardinality({y \in first : y < x}) = k - 1]
                      .coordinate>>)>>)]))

IdleRequest ==
  [pc |-> "idle", route |-> "", userId |-> NoSession, body |-> null,
   gridId |-> null, coordinate |-> null, existing |-> null]

\* the run in slot r responds: the slot is free again, and result holds
\* the request and what the client received
Done(r, response) ==
  /\ requests' = [requests EXCEPT ![r] = IdleRequest]
  /\ result' = [route |-> requests[r].route, userId |-> requests[r].userId,
                body |-> requests[r].body, response |-> response]

\* a run that responds without waiting for a store call
Respond(route, session, body, response) ==
  /\ UNCHANGED requests
  /\ result' = [route |-> route, userId |-> session, body |-> body,
                response |-> response]

\* a run goes on to its next store call
Continue(r, pc) ==
  /\ requests' = [requests EXCEPT ![r].pc = pc]
  /\ UNCHANGED result

\* handler runs between their first store access and their response
Writing == {r \in Requests : requests[r].pc \in {"findFirst", "create", "update"}}

MayWrite == clock + Cardinality(Writing) < MaxClock

DatabaseUnavailable(route) ==
  IF route = "POST explore-grid"
    THEN [status |-> 503, success |-> FALSE, databaseUnavailable |-> TRUE]
    ELSE [status |-> 503, error |-> "DATABASE_ERROR"]


(***************************************************************************)
(* The mist (coverage) percentage.                                         *)
(***************************************************************************)
\* the forEach callback on one row: the grid id handed to Set.add, null
\* when the callback returns before (no coordinate, NaN, no grid id)
AddedGridId(footprint) ==
  IF footprint.coordinate = null \/ footprint.coordinate = EmptyString
    THEN null
  ELSE Call("GridIdOf", <<footprint.coordinate>>)

\* the forEach with an array in the place of the Set: no deduplication
exploredGridIdsArray(found) ==
  SelectSeq(SubSeq([i \in 1..Len(found) |->
                      Call("AddedGridId", <<found[i]>>)], 1, Len(found)),
            LAMBDA id : id # null)

\* exploredGridIds / uniqueExploredGridIds after the forEach: a Set keeps
\* its elements in insertion order and add ignores an element it holds
exploredGridIds(found) ==
  Let(SubSeq([i \in 1..Len(found) |-> Call("AddedGridId", <<found[i]>>)],
             1, Len(found)),
      LAMBDA ids :
    Let(SelectSeq([i \in 1..Len(found) |-> i],
                  LAMBDA i : /\ ids[i] # null
                             /\ \A j \in 1..(i - 1) : ids[j] # ids[i]),
        LAMBDA added :
      [k \in 1..Len(added) |-> ids[added[k]]]))

\* Math.floor in the place of Math.round
MathFloor(x) == Call("DFloor", <<x>>)

\* Math.round of a finite x >= 0, as an integer
MathRound(x) ==
  IF x.e >= 0 THEN Call("DFloor", <<x>>) ELSE Call("DFloor", <<x>>) + Call("BBit", <<x.m, (-x.e) - 1>>)

\* (exploredCount / totalGrids) * 100
PercentageOf(exploredCount, totalGrids) ==
  Call("DMul", <<Call("DDiv", <<Call("DFromInt", <<exploredCount>>), Call("DFromInt", <<totalGrids>>)>>), Call("DFromInt", <<100>>)>>)

\* the percentage of what is left unexplored
MistRemaining(exploredCount, totalGrids) ==
  IF totalGrids = 0 THEN DZero
  ELSE Call("DFromInt",
            <<100 - Call("MathRound",
                         <<Call("PercentageOf",
                                <<exploredCount, totalGrids>>)>>)>>)

\* GET mist-percentage: 0 for an empty region, else Math.round
MistPercentage(exploredCount, totalGrids) ==
  IF totalGrids = 0 THEN DZero
  ELSE Call("DFromInt", <<Call("MathRound", <<Call("PercentageOf", <<exploredCount, totalGrids>>)>>)>>)

\* the other GET mist-percentage: parseFloat(percentage.toFixed(2))
MistPercentageFixed2(exploredCount, totalGridCount) ==
  IF totalGridCount = 0 THEN DZero
  ELSE Call("parseFloat", <<[neg |-> FALSE,
                   n |-> Call("BFromInt", <<Call("ToFixed", <<Call("PercentageOf", <<exploredCount,
                                                       totalGridCount>>), 2>>)>>),
                   d |-> 2]>>)

\* the two GET handlers from the session to the response body
MistPercentageGET(table, session, cache) ==
  IF session = NoSession THEN [status |-> 200, percentage |-> DZero]
  ELSE [status |-> 200,
        percentage |->
          Call("MistPercentage", <<
            Len(Call("exploredGridIds", <<FindMany(table, session)>>)),
            Len(Call("getAllTaiwanGridIds", <<cache>>))>>)]

MistPercentageFixed2GET(table, session, cache) ==
  IF session = NoSession THEN [status |-> 200, percentage |-> DZero]
  ELSE [status |-> 200,
        percentage |->
          Call("MistPercentageFixed2", <<
            Len(Call("exploredGridIds", <<FindMany(table, session)>>)),
            Len(Call("getAllTaiwanGridIds", <<cache>>))>>)]


(***************************************************************************)
(* The handlers.  A handler run occupies a request slot; it takes one step *)
(* up to each awaited store call and one step from the last call to its    *)
(* response.  Steps of different runs interleave.                          *)
(***************************************************************************)
Call(f, a) ==
  CASE f = "Pow2" -> Pow2(a[1])
    [] f = "BNorm" -> BNorm(a[1])
    [] f = "BFromInt" -> BFromInt(a[1])
    [] f = "BToInt" -> BToInt(a[1])
    [] f = "BCmp" -> BCmp(a[1], a[2])
    [] f = "BAdd" -> BAdd(a[1], a[2])
    [] f = "BSub" -> BSub(a[1], a[2])
    [] f = "BShiftLimbs" -> BShiftLimbs(a[1], a[2])
    [] f = "BMulSmall" -> BMulSmall(a[1], a[2])
    [] f = "BMulFrom" -> BMulFrom(a[1], a[2], a[3])
    [] f = "BMul" -> BMul(a[1], a[2])
    [] f = "IntBitLen" -> IntBitLen(a[1])
    [] f = "BBitLen" -> BBitLen(a[1])
    [] f = "BShl" -> BShl(a[1], a[2])
    [] f = "BShr" -> BShr(a[1], a[2])
    [] f = "BBit" -> BBit(a[1], a[2])
    [] f = "BTrailingZeros" -> BTrailingZeros(a[1])
    [] f = "BQuotLimb" -> BQuotLimb(a[1], a[2])
    [] f = "BDivModFrom" -> BDivModFrom(a[1], a[2], a[3], a[4], a[5])
    [] f = "BDivMod" -> BDivMod(a[1], a[2])
    [] f = "DCanon" -> DCanon(a[1], a[2], a[3])
    [] f = "DRound" -> DRound(a[1], a[2], a[3], a[4])
    [] f = "DFromInt" -> DFromInt(a[1])
    [] f = "BPow10" -> BPow10(a[1])
    [] f = "DFromDecimalBig" -> DFromDecimalBig(a[1], a[2], a[3])
    [] f = "DFromDecimal" -> DFromDecimal(a[1], a[2])
    [] f = "DAlign" -> DAlign(a[1], a[2])
    [] f = "DCmpMag" -> DCmpMag(a[1], a[2])
    [] f = "DLt" -> DLt(a[1], a[2])
    [] f = "DLe" -> DLe(a[1], a[2])
    [] f = "DGe" -> DGe(a[1], a[2])
    [] f = "DMax" -> DMax(a[1], a[2])
    [] f = "DMin" -> DMin(a[1], a[2])
    [] f = "DAdd" -> DAdd(a[1], a[2])
    [] f = "DMul" -> DMul(a[1], a[2])
    [] f = "DDiv" -> DDiv(a[1], a[2])
    [] f = "DFloor" -> DFloor(a[1])
    [] f = "ToFixed" -> ToFixed(a[1], a[2])
    [] f = "BScaledFloor" -> BScaledFloor(a[1], a[2])
    [] f = "HiCloser" -> HiCloser(a[1], a[2], a[3])
    [] f = "ReadsBack" -> ReadsBack(a[1], a[2])
    [] f = "NumberToString" -> NumberToString(a[1])
    [] f = "parseFloat" -> parseFloat(a[1])
    [] f = "isNaN" -> isNaN(a[1])
    [] f = "Lit" -> Lit(a[1], a[2])
    [] f = "isInTaiwanBounds" -> isInTaiwanBounds(a[1], a[2])
    [] f = "GridIdString" -> GridIdString(a[1], a[2])
    [] f = "coordinateToGridId" -> coordinateToGridId(a[1], a[2])
    [] f = "gridIdToCoordinate" -> gridIdToCoordinate(a[1])
    [] f = "gridIdToCenter" -> gridIdToCenter(a[1])
    [] f = "gridIdToBounds" -> gridIdToBounds(a[1])
    [] f = "AllGridRow" -> AllGridRow(a[1], a[2])
    [] f = "AllGridRows" -> AllGridRows(a[1], a[2])
    [] f = "AllGridIdsOf" -> AllGridIdsOf(a[1])
    [] f = "getAllTaiwanGridIds" -> getAllTaiwanGridIds(a[1])
    [] f = "CoordinateString" -> CoordinateString(a[1], a[2])
    [] f = "SplitPart" -> SplitPart(a[1], a[2])
    [] f = "ParsedGridId" -> ParsedGridId(a[1])
    [] f = "JsonNumber" -> JsonNumber(a[1])
    [] f = "ExploreGridInput" -> ExploreGridInput(a[1])
    [] f = "MistPostInput" -> MistPostInput(a[1])
    [] f = "RawCoordinate" -> RawCoordinate(a[1], a[2])
    [] f = "FullVisitsOf" -> FullVisitsOf(a[1])
    [] f = "GridIdOf" -> GridIdOf(a[1])
    [] f = "GridMapRows" -> GridMapRows(a[1])
    [] f = "GridMapEntry" -> GridMapEntry(a[1], a[2])
    [] f = "ExploredGrids" -> ExploredGrids(a[1])
    [] f = "AddedGridId" -> AddedGridId(a[1])
    [] f = "exploredGridIds" -> exploredGridIds(a[1])
    [] f = "MathRound" -> MathRound(a[1])
    [] f = "PercentageOf" -> PercentageOf(a[1], a[2])
    [] f = "MistPercentage" -> MistPercentage(a[1], a[2])
    [] f = "MistPercentageFixed2" -> MistPercentageFixed2(a[1], a[2])
    [] f = "MistPercentageGET" -> MistPercentageGET(a[1], a[2], a[3])
    [] f = "MistPercentageFixed2GET" -> MistPercentageFixed2GET(a[1], a[2], a[3])
    [] f = "FixGridId" -> FixGridId(a[1])
    [] f = "FixFloors" -> FixFloors(a[1])
    [] f = "CornerRoundTrip" -> CornerRoundTrip(a[1])
    [] f = "CenterAndBounds" -> CenterAndBounds(a[1])
    [] f = "VisibleRow" -> VisibleRow(a[1], a[2], a[3])
    [] f = "VisibleRows" -> VisibleRows(a[1], a[2], a[3], a[4])
    [] f = "FloorToStep" -> FloorToStep(a[1], a[2])
    [] f = "getVisibleGridIds" -> getVisibleGridIds(a[1])
    [] f = "FixBounds" -> FixBounds(a[1])
    [] f = "FixVisibleGridIds" -> FixVisibleGridIds(a[1])
    [] f = "GridFeature" -> GridFeature(a[1])
    [] f = "gridIdsToGeoJSON" -> gridIdsToGeoJSON(a[1])
    [] f = "visibleGridIds" -> visibleGridIds(a[1])
    [] f = "unexploredGridIds" -> unexploredGridIds(a[1], a[2])
    [] f = "fogGeoJSON" -> fogGeoJSON(a[1])
    [] f = "FogLayer" -> FogLayer(a[1], a[2])
    [] f = "IdShapes" -> IdShapes(a[1])
    [] f = "GridIdAndAllGridIds" -> GridIdAndAllGridIds(a[1], a[2])

Init ==
  /\ tasks = << >>
  /\ userTasks = << >>
  /\ mapRecords = << >>
  /\ mapRecordPictures = << >>
  /\ footprints = << >>
  /\ cachedAllTaiwanGridIds = null
  /\ requests = [r \in Requests |-> IdleRequest]
  /\ clock = 1
  /\ dbAvailable = TRUE
  /\ args = null
  /\ result = null

\* POST explore-grid: session, body, bounds check, grid id, center
ExploreGridPost(r, session, body) ==
  /\ requests[r].pc = "idle"
  /\ IF session = NoSession
       THEN Respond("POST explore-grid", session, body,
                    [status |-> 401, error |-> "please sign in"])
     ELSE IF ~ExploreGridInputs[body].ok
       THEN Respond("POST explore-grid", session, body,
                    [status |-> ExploreGridInputs[body].status,
                     error |-> ExploreGridInputs[body].error])
     ELSE /\ MayWrite
          /\ requests' = [requests EXCEPT ![r] =
               [pc |-> "findFirst", route |-> "POST explore-grid",
                userId |-> session, body |-> body,
                gridId |-> ExploreGridInputs[body].gridId,
                coordinate |-> ExploreGridInputs[body].coordinate,
                existing |-> null]]
          /\ UNCHANGED result
  /\ UNCHANGED <<footprints, cachedAllTaiwanGridIds, clock, dbAvailable,
                 args,
                 taskTables, mapTables>>

\* POST explore-grid: findFirst, and the response when the row exists
ExploreGridFindFirst(r) ==
  /\ requests[r].pc = "findFirst"
  /\ requests[r].route = "POST explore-grid"
  /\ IF ~dbAvailable
       THEN Done(r, DatabaseUnavailable("POST explore-grid"))
     ELSE IF FindFirstMatches(footprints, requests[r].userId,
                              requests[r].coordinate) = {}
       THEN Continue(r, "create")
     ELSE \E existingFootprint \in
               FindFirstMatches(footprints, requests[r].userId,
                                requests[r].coordinate) :
            Done(r, [status |-> 200, success |-> TRUE,
                     alreadyExplored |-> TRUE,
                     footprint |->
                       [id |-> existingFootprint.id,
                        gridId |-> requests[r].gridId,
                        coordinate |-> existingFootprint.coordinate]])
  /\ UNCHANGED <<footprints, cachedAllTaiwanGridIds, clock, dbAvailable,
                 args,
                 taskTables, mapTables>>

\* POST explore-grid: create and the response
ExploreGridCreate(r) ==
  /\ requests[r].pc = "create"
  /\ requests[r].route = "POST explore-grid"
  /\ IF ~dbAvailable
       THEN /\ Done(r, DatabaseUnavailable("POST explore-grid"))
            /\ UNCHANGED <<footprints, clock>>
       ELSE /\ footprints' = FootprintCreate(footprints, requests[r].userId,
                                             requests[r].coordinate, clock)
            /\ clock' = clock + 1
            /\ Done(r, [status |-> 200, success |-> TRUE,
                        alreadyExplored |-> FALSE,
                        footprint |->
                          [id |-> Len(footprints) + 1,
                           gridId |-> requests[r].gridId,
                           coordinate |-> requests[r].coordinate]])
  /\ UNCHANGED <<cachedAllTaiwanGridIds, dbAvailable, args,
                 taskTables, mapTables>>

\* POST mist-percentage: requireAuth, body, grid id
MistPost(r, session, body) ==
  /\ requests[r].pc = "idle"
  /\ IF session = NoSession
       THEN Respond("POST mist-percentage", session, body,
                    [status |-> 401, error |-> "UNAUTHORIZED"])
     ELSE IF ~MistPostInputs[body].ok
       THEN Respond("POST mist-percentage", session, body,
                    [status |-> MistPostInputs[body].status,
                     error |-> MistPostInputs[body].error])
     ELSE /\ MayWrite
          /\ requests' = [requests EXCEPT ![r] =
               [pc |-> "findFirst", route |-> "POST mist-percentage",
                userId |-> session, body |-> body,
                gridId |-> MistPostInputs[body].gridId,
                coordinate |-> MistPostInputs[body].coordinate,
                existing |-> null]]
          /\ UNCHANGED result
  /\ UNCHANGED <<footprints, cachedAllTaiwanGridIds, clock, dbAvailable,
                 args,
                 taskTables, mapTables>>

\* POST mist-percentage: findFirst
MistPostFindFirst(r) ==
  /\ requests[r].pc = "findFirst"
  /\ requests[r].route = "POST mist-percentage"
  /\ IF ~dbAvailable
       THEN Done(r, DatabaseUnavailable("POST mist-percentage"))
     ELSE IF FindFirstMatches(footprints, requests[r].userId,
                              requests[r].coordinate) = {}
       THEN Continue(r, "create")
     ELSE \E existingFootprint \in
               FindFirstMatches(footprints, requests[r].userId,
                                requests[r].coordinate) :
            /\ requests' = [requests EXCEPT
                              ![r].pc = "update",
                              ![r].existing = [id |-> existingFootprint.id]]
            /\ UNCHANGED result
  /\ UNCHANGED <<footprints, cachedAllTaiwanGridIds, clock, dbAvailable,
                 args,
                 taskTables, mapTables>>

\* POST mist-percentage: update of the existing row and the response
MistPostUpdate(r) ==
  /\ requests[r].pc = "update"
  /\ IF ~dbAvailable
       THEN /\ Done(r, DatabaseUnavailable("POST mist-percentage"))
            /\ UNCHANGED <<footprints, clock>>
       ELSE /\ footprints' = FootprintUpdate(footprints,
                                             requests[r].existing.id, clock)
            /\ clock' = clock + 1
            /\ Done(r, [status |-> 200, data |-> [updated |-> TRUE]])
  /\ UNCHANGED <<cachedAllTaiwanGridIds, dbAvailable, args,
                 taskTables, mapTables>>

\* POST mist-percentage: create and the response
MistPostCreate(r) ==
  /\ requests[r].pc = "create"
  /\ requests[r].route = "POST mist-percentage"
  /\ IF ~dbAvailable
       THEN /\ Done(r, DatabaseUnavailable("POST mist-percentage"))
            /\ UNCHANGED <<footprints, clock>>
       ELSE /\ footprints' = FootprintCreate(footprints, requests[r].userId,
                                             requests[r].coordinate, clock)
            /\ clock' = clock + 1
            /\ Done(r, [status |-> 200, data |-> [created |-> TRUE]])
  /\ UNCHANGED <<cachedAllTaiwanGridIds, dbAvailable, args,
                 taskTables, mapTables>>

\* GET explored-grids: getUserId, findMany, gridMap, the response.  Only
\* findMany reads shared state, so the run is one step.
ExploredGridsGet(session) ==
  /\ Respond("GET explored-grids", session, null,
             IF session = NoSession \/ ~dbAvailable
               THEN [status |-> 200, data |-> [grids |-> << >>]]
               ELSE [status |-> 200,
                     data |-> [grids |->
                       Call("ExploredGrids",
                            <<FindMany(footprints, session)>>)]])
  /\ UNCHANGED <<footprints, cachedAllTaiwanGridIds, clock, dbAvailable,
                 args,
                 taskTables, mapTables>>

\* the database starts or stops refusing connections
DatabaseDown ==
  /\ dbAvailable
  /\ dbAvailable' = FALSE
  /\ UNCHANGED <<footprints, cachedAllTaiwanGridIds, requests, clock,
                 args, result, taskTables, mapTables>>

DatabaseUp ==
  /\ ~dbAvailable
  /\ dbAvailable' = TRUE
  /\ UNCHANGED <<footprints, cachedAllTaiwanGridIds, requests, clock,
                 args, result, taskTables, mapTables>>

Next ==
  \/ \E r \in Requests, session \in Sessions, body \in Bodies :
       ExploreGridPost(r, session, body)
  \/ \E r \in Requests : ExploreGridFindFirst(r)
  \/ \E r \in Requests : ExploreGridCreate(r)
  \/ \E r \in Requests, session \in Sessions, body \in Bodies :
       MistPost(r, session, body)
  \/ \E r \in Requests : MistPostFindFirst(r)
  \/ \E r \in Requests : MistPostUpdate(r)
  \/ \E r \in Requests : MistPostCreate(r)
  \/ \E session \in Sessions : ExploredGridsGet(session)
  \/ DatabaseDown
  \/ DatabaseUp

Spec == Init /\ [][Next]_vars


(***************************************************************************)
(* The pure functions, each applied to inputs that Init draws.  args is    *)
(* the input and result what the function returned; the store, the cache   *)
(* and the request slots stay as constructed unless the function uses      *)
(* them.                                                                   *)
(***************************************************************************)
Constructed ==
  /\ tasks = << >>
  /\ userTasks = << >>
  /\ mapRecords = << >>
  /\ mapRecordPictures = << >>
  /\ footprints = << >>
  /\ cachedAllTaiwanGridIds = null
  /\ requests = [r \in Requests |-> IdleRequest]
  /\ clock = 1
  /\ dbAvailable = TRUE
  /\ result = null

\* ---- coordinateToGridId and isInTaiwanBounds
\* latitudes and longitudes in ten-thousandths of a degree: around and on
\* the four bounds, on and next to cell edges, the sample fixes, and 0
LatFixes ==
  { 0, WinMinLatMilli * 10 - 1, WinMinLatMilli * 10, WinMinLatMilli * 10 + 1,
    250379, 250380, 250330, 250335, 250470,
    WinMaxLatMilli * 10 - 1, WinMaxLatMilli * 10, WinMaxLatMilli * 10 + 1 }

LonFixes ==
  { 0, WinMinLonCenti * 100 - 1, WinMinLonCenti * 100,
    WinMinLonCenti * 100 + 1, 1215654, 1215658, 1215700, 1215800, 1216000,
    WinMaxLonCenti * 100 - 1, WinMaxLonCenti * 100,
    WinMaxLonCenti * 100 + 1 }

GridInputs == [lat4 : LatFixes, lon4 : LonFixes]

InitGrid == Constructed /\ args \in GridInputs

ApplyCoordinateToGridId ==
  /\ result = null
  /\ result' =
       [inBounds |->
          Call("isInTaiwanBounds",
               <<Call("DFromDecimal", <<args.lat4, BodyDigits>>),
                 Call("DFromDecimal", <<args.lon4, BodyDigits>>)>>),
        gridId |->
          Call("coordinateToGridId",
               <<Call("DFromDecimal", <<args.lat4, BodyDigits>>),
                 Call("DFromDecimal", <<args.lon4, BodyDigits>>)>>)]
  /\ UNCHANGED <<footprints, cachedAllTaiwanGridIds, requests, clock,
                 dbAvailable, args,
                 taskTables, mapTables>>

NextGrid == ApplyCoordinateToGridId

SpecGrid == InitGrid /\ [][NextGrid]_vars

\* ---- the percentage from the two counts
MaxCount == 12

PercentageInputs == [exploredCount : 0..MaxCount, totalGrids : 0..MaxCount]

InitPercentage == Constructed /\ args \in PercentageInputs

ApplyMistPercentage ==
  /\ result = null
  /\ result' = [applied |-> "MistPercentage",
                percentage |->
                  Call("MistPercentage",
                       <<args.exploredCount, args.totalGrids>>)]
  /\ UNCHANGED <<footprints, cachedAllTaiwanGridIds, requests, clock,
                 dbAvailable, args,
                 taskTables, mapTables>>

ApplyMistPercentageFixed2 ==
  /\ result = null
  /\ result' = [applied |-> "MistPercentageFixed2",
                percentage |->
                  Call("MistPercentageFixed2",
                       <<args.exploredCount, args.totalGrids>>)]
  /\ UNCHANGED <<footprints, cachedAllTaiwanGridIds, requests, clock,
                 dbAvailable, args,
                 taskTables, mapTables>>

NextPercentage == ApplyMistPercentage \/ ApplyMistPercentageFixed2

SpecPercentage == InitPercentage /\ [][NextPercentage]_vars

\* ---- the explored set and the percentage of a table, before and after
\* one more row.  The table is a short list of SeedRows or FullVisits with
\* at most one of them appended; the reader is CoverageUser.
MaxRecords == 2

CoverageUser == "u1"

RecordLists ==
  UNION {[1..n -> SeedRows] : n \in 0..MaxRecords} \cup
  {FullVisits \o s : s \in UNION {[1..n -> SeedRows] : n \in 0..1}}

CoverageInputs == [records : RecordLists, added : SeedRows]

InitCoverage == Constructed /\ args \in CoverageInputs

\* the forEach of the GET handlers over findMany of the table with the row
ApplyExploredGridIds ==
  /\ result = null
  /\ result' =
       [applied |-> "exploredGridIds",
        explored |->
          Call("exploredGridIds",
               <<FindMany(Append(args.records, args.added),
                          CoverageUser)>>)]
  /\ UNCHANGED <<footprints, cachedAllTaiwanGridIds, requests, clock,
                 dbAvailable, args,
                 taskTables, mapTables>>

\* GET mist-percentage (Math.round) on the table, then on the table with
\* the row; getAllTaiwanGridIds fills the cache
ApplyMistPercentageGET ==
  /\ result = null
  /\ result' =
       [applied |-> "MistPercentageGET",
        before |->
          Call("MistPercentageGET",
               <<args.records, CoverageUser, cachedAllTaiwanGridIds>>),
        after |->
          Call("MistPercentageGET",
               <<Append(args.records, args.added), CoverageUser,
                 Call("getAllTaiwanGridIds", <<cachedAllTaiwanGridIds>>)>>)]
  /\ cachedAllTaiwanGridIds' =
       Call("getAllTaiwanGridIds", <<cachedAllTaiwanGridIds>>)
  /\ UNCHANGED <<footprints, requests, clock, dbAvailable, args,
                 taskTables, mapTables>>

\* GET mist-percentage (toFixed(2)), the same two reads
ApplyMistPercentageFixed2GET ==
  /\ result = null
  /\ result' =
       [applied |-> "MistPercentageFixed2GET",
        before |->
          Call("MistPercentageFixed2GET",
               <<args.records, CoverageUser, cachedAllTaiwanGridIds>>),
        after |->
          Call("MistPercentageFixed2GET",
               <<Append(args.records, args.added), CoverageUser,
                 Call("getAllTaiwanGridIds", <<cachedAllTaiwanGridIds>>)>>)]
  /\ cachedAllTaiwanGridIds' =
       Call("getAllTaiwanGridIds", <<cachedAllTaiwanGridIds>>)
  /\ UNCHANGED <<footprints, requests, clock, dbAvailable, args,
                 taskTables, mapTables>>

NextCoverage ==
  \/ ApplyExploredGridIds
  \/ ApplyMistPercentageGET
  \/ ApplyMistPercentageFixed2GET

SpecCoverage == InitCoverage /\ [][NextCoverage]_vars

\* ---- coordinateToGridId on two coordinates, and again on the first
PairLatFixes ==
  { WinMinLatMilli * 10, 250330, 250379, 250380, WinMaxLatMilli * 10 }

PairLonFixes ==
  { WinMinLonCenti * 100, 1215654, 1215658, 1215700, 1215750,
    WinMaxLonCenti * 100 }

PairInputs ==
  [first : [lat4 : PairLatFixes, lon4 : PairLonFixes],
   second : [lat4 : PairLatFixes, lon4 : PairLonFixes]]

InitGridPair == Constructed /\ args \in PairInputs

ApplyCoordinateToGridIdTwice ==
  /\ result = null
  /\ result' = [first |-> Call("FixGridId", <<args.first>>),
                second |-> Call("FixGridId", <<args.second>>),
                again |-> Call("FixGridId", <<args.first>>),
                firstFloors |-> Call("FixFloors", <<args.first>>),
                secondFloors |-> Call("FixFloors", <<args.second>>)]
  /\ UNCHANGED <<footprints, cachedAllTaiwanGridIds, requests, clock,
                 dbAvailable, args,
                 taskTables, mapTables>>

NextGridPair == ApplyCoordinateToGridIdTwice

SpecGridPair == InitGridPair /\ [][NextGridPair]_vars

\* ---- gridIdToCoordinate, gridIdToCenter and gridIdToBounds on the id of
\* a coordinate
CellInputs == [lat4 : LatFixes, lon4 : LonFixes \cup {1215750}]

InitCell == Constructed /\ args \in CellInputs

ApplyGridIdToCoordinate ==
  /\ result = null
  /\ result' = Call("CornerRoundTrip", <<args>>)
  /\ UNCHANGED <<footprints, cachedAllTaiwanGridIds, requests, clock,
                 dbAvailable, args,
                 taskTables, mapTables>>

ApplyGridIdToCenter ==
  /\ result = null
  /\ result' = Call("CenterAndBounds", <<args>>)
  /\ UNCHANGED <<footprints, cachedAllTaiwanGridIds, requests, clock,
                 dbAvailable, args,
                 taskTables, mapTables>>

NextCell == ApplyGridIdToCoordinate \/ ApplyGridIdToCenter

SpecCell == InitCell /\ [][NextCell]_vars

\* ---- getVisibleGridIds on viewports around, across and inside the
\* region; a span is <<south, north>> or <<west, east>> in ten-thousandths
\* of a degree
LatSpans ==
  { <<0, WinMinLatMilli * 10 - 30>>, <<0, 240000>>,
    <<WinMaxLatMilli * 10 + 5, 260000>>, <<0, 900000>>,
    <<WinMinLatMilli * 10, WinMaxLatMilli * 10>>,
    <<250330, 250380>>, <<250380, 250470>>, <<250335, 250400>> }

LonSpans ==
  { <<0, WinMinLonCenti * 100 - 100>>,
    <<WinMaxLonCenti * 100 + 50, 1220000>>, <<0, 1800000>>,
    <<WinMinLonCenti * 100, WinMaxLonCenti * 100>>,
    <<1215654, 1215800>>, <<1215750, 1215900>>, <<1215700, 1215700>> }

Viewports ==
  {[south |-> lat[1], north |-> lat[2], west |-> lon[1], east |-> lon[2]] :
     lat \in LatSpans, lon \in LonSpans}

InitViewport == Constructed /\ args \in Viewports

ApplyGetVisibleGridIds ==
  /\ result = null
  /\ result' = [applied |-> "getVisibleGridIds",
                gridIds |-> Call("FixVisibleGridIds", <<args>>)]
  /\ UNCHANGED <<footprints, cachedAllTaiwanGridIds, requests, clock,
                 dbAvailable, args,
                 taskTables, mapTables>>

NextViewport == ApplyGetVisibleGridIds

SpecViewport == InitViewport /\ [][NextViewport]_vars

\* ---- the two GET mist-percentage handlers, interleaved, over a store
\* that Init draws.  A run takes one step from the resolved session to the
\* awaited findMany (the call of getAllTaiwanGridIds is in it) and one
\* step from the rows to the response; allGridIds is the array the call
\* returned.
CacheTables == {<< >>} \cup {<<row>> : row \in SeedRows}

MistGetRoutes == {"GET mist-percentage", "GET mist-percentage toFixed"}

InitCache ==
  /\ tasks = << >>
  /\ userTasks = << >>
  /\ mapRecords = << >>
  /\ mapRecordPictures = << >>
  /\ footprints \in CacheTables
  /\ cachedAllTaiwanGridIds = null
  /\ requests = [r \in Requests |-> IdleRequest]
  /\ clock = 1
  /\ dbAvailable = TRUE
  /\ args = null
  /\ result = null

MistGetAllGridIds(r, route, session) ==
  /\ requests[r].pc = "idle"
  /\ IF session = NoSession
       THEN /\ Respond(route, session, null,
                       [status |-> 200, percentage |-> DZero])
            /\ UNCHANGED cachedAllTaiwanGridIds
       ELSE /\ cachedAllTaiwanGridIds' =
                 Call("getAllTaiwanGridIds", <<cachedAllTaiwanGridIds>>)
            /\ requests' = [requests EXCEPT ![r] =
                 [pc |-> "findMany", route |-> route, userId |-> session,
                  body |-> null, allGridIds |-> cachedAllTaiwanGridIds']]
            /\ UNCHANGED result
  /\ UNCHANGED <<footprints, clock, dbAvailable, args,
                 taskTables, mapTables>>

MistGetFindMany(r) ==
  /\ requests[r].pc = "findMany"
  /\ Done(r, Call(IF requests[r].route = "GET mist-percentage"
                    THEN "MistPercentageGET" ELSE "MistPercentageFixed2GET",
                  <<footprints, requests[r].userId,
                    requests[r].allGridIds>>))
  /\ UNCHANGED <<footprints, cachedAllTaiwanGridIds, clock, dbAvailable,
                 args,
                 taskTables, mapTables>>

NextCache ==
  \/ \E r \in Requests, route \in MistGetRoutes, session \in Sessions :
       MistGetAllGridIds(r, route, session)
  \/ \E r \in Requests : MistGetFindMany(r)

SpecCache == InitCache /\ [][NextCache]_vars

\* ---- FogLayer on small viewports (and before the map bounds are known)
\* and sets of explored ids
FogViewports ==
  {[south |-> lat[1], north |-> lat[2], west |-> lon[1], east |-> lon[2]] :
     lat \in { <<0, WinMinLatMilli * 10 - 30>>, <<250330, 250380>>,
               <<250380, 250470>>, <<250335, 250400>> },
     lon \in { <<0, WinMinLonCenti * 100 - 100>>, <<1215654, 1215800>>,
               <<1215750, 1215900>>, <<1215700, 1215700>> }}
    \cup {null}

GridIdOfDigits(lat3, lon2) == [prefix |-> "grid", lat3 |-> lat3, lon2 |-> lon2]

ExploredSets ==
  { {}, {GridIdOfDigits(25029, 12156)},
    {GridIdOfDigits(25029, 12156), GridIdOfDigits(25038, 12157)},
    {GridIdOfDigits(25038, 12156)}, {GridIdOfDigits(25047, 12158)},
    {GridIdOfDigits(25146, 12169)},
    {GridIdOfDigits(lat3, lon2) : lat3 \in {25020, 25029, 25038, 25047},
                                  lon2 \in 12156..12159} }

FogInputs == [viewport : FogViewports, explored : ExploredSets]

InitFog == Constructed /\ args \in FogInputs

ApplyFogLayer ==
  /\ result = null
  /\ result' = Call("FogLayer", <<args.viewport, args.explored>>)
  /\ UNCHANGED <<footprints, cachedAllTaiwanGridIds, requests, clock,
                 dbAvailable, args,
                 taskTables, mapTables>>

NextFog == ApplyFogLayer

SpecFog == InitFog /\ [][NextFog]_vars

\* ---- the handlers one after the other: a run starts only when no other
\* run is between its first store call and its response
NoRunInFlight == \A q \in Requests : requests[q].pc = "idle"

SequentialExploreGridPost(r, session, body) ==
  /\ NoRunInFlight
  /\ ExploreGridPost(r, session, body)

SequentialMistPost(r, session, body) ==
  /\ NoRunInFlight
  /\ MistPost(r, session, body)

NextSequential ==
  \/ \E r \in Requests, session \in Sessions, body \in Bodies :
       SequentialExploreGridPost(r, session, body)
  \/ \E r \in Requests : ExploreGridFindFirst(r)
  \/ \E r \in Requests : ExploreGridCreate(r)
  \/ \E r \in Requests, session \in Sessions, body \in Bodies :
       SequentialMistPost(r, session, body)
  \/ \E r \in Requests : MistPostFindFirst(r)
  \/ \E r \in Requests : MistPostUpdate(r)
  \/ \E r \in Requests : MistPostCreate(r)
  \/ \E session \in Sessions : ExploredGridsGet(session)
  \/ DatabaseDown
  \/ DatabaseUp

SpecSequential == Init /\ [][NextSequential]_vars

\* ---- gridIdToCoordinate, gridIdToCenter, gridIdToBounds and
\* gridIdsToGeoJSON on grid id strings, those of the region and others
Numeral(n, d) == [neg |-> FALSE, n |-> Call("BFromInt", <<n>>), d |-> d]
NumeralThenText(n, d, rest) ==
  [neg |-> FALSE, n |-> Call("BFromInt", <<n>>), d |-> d, rest |-> rest]
Text(t) == [txt |-> t]

\* grid_25.03_121.6 and grid_25_121: numbers that toFixed does not print
OtherWellFormedIds ==
  { [parts |-> <<Text("grid"), Numeral(2503, 2), Numeral(1216, 1)>>],
    [parts |-> <<Text("grid"), Numeral(25, 0), Numeral(121, 0)>>] }

\* cell_25.029_121.56, grid_25.029, grid_25.029_121.56_1, the empty string,
\* grid, grid_abc_121.56, grid_25.029_abc, grid__121.56, grid_25.029abc_121.56
\* and grid_25.029_121.56x
MalformedIds ==
  { [parts |-> <<Text("cell"), Numeral(25029, 3), Numeral(12156, 2)>>],
    [parts |-> <<Text("grid"), Numeral(25029, 3)>>],
    [parts |-> <<Text("grid"), Numeral(25029, 3), Numeral(12156, 2),
                 Numeral(1, 0)>>],
    [parts |-> <<Text("")>>],
    [parts |-> <<Text("grid")>>],
    [parts |-> <<Text("grid"), Text("abc"), Numeral(12156, 2)>>],
    [parts |-> <<Text("grid"), Numeral(25029, 3), Text("abc")>>],
    [parts |-> <<Text("grid"), Text(""), Numeral(12156, 2)>>],
    [parts |-> <<Text("grid"), NumeralThenText(25029, 3, "abc"),
                 Numeral(12156, 2)>>],
    [parts |-> <<Text("grid"), Numeral(25029, 3),
                 NumeralThenText(12156, 2, "x")>>] }

RegionIds ==
  {ComputeAllTaiwanGridIds[i] : i \in 1..Len(ComputeAllTaiwanGridIds)}

IdInputs == RegionIds \cup OtherWellFormedIds \cup MalformedIds

InitId == Constructed /\ args \in IdInputs

ApplyGridIdToBounds ==
  /\ result = null
  /\ result' = Call("IdShapes", <<args>>)
  /\ UNCHANGED <<footprints, cachedAllTaiwanGridIds, requests, clock,
                 dbAvailable, args,
                 taskTables, mapTables>>

\* gridIdsToGeoJSON on [first id of the region, args]
ApplyGridIdsToGeoJSON ==
  /\ result = null
  /\ result' = [applied |-> "gridIdsToGeoJSON",
                geojson |-> Call("gridIdsToGeoJSON",
                                 <<<<ComputeAllTaiwanGridIds[1], args>>>>)]
  /\ UNCHANGED <<footprints, cachedAllTaiwanGridIds, requests, clock,
                 dbAvailable, args,
                 taskTables, mapTables>>

NextId == ApplyGridIdToBounds \/ ApplyGridIdsToGeoJSON

SpecId == InitId /\ [][NextId]_vars

\* ---- coordinateToGridId beside getAllTaiwanGridIds
InitDenominator == Constructed /\ args \in GridInputs

ApplyCoordinateToGridIdAndGetAll ==
  /\ result = null
  /\ result' = Call("GridIdAndAllGridIds", <<args, cachedAllTaiwanGridIds>>)
  /\ cachedAllTaiwanGridIds' = result'.allGridIds
  /\ UNCHANGED <<footprints, requests, clock, dbAvailable, args,
                 taskTables, mapTables>>

NextDenominator == ApplyCoordinateToGridIdAndGetAll

SpecDenominator == InitDenominator /\ [][NextDenominator]_vars

(***************************************************************************)
(* FootprintMap, the page that posts to explore-grid.  args is the state   *)
(* of the component: currentGridIdRef, the exploredGrids list, the last    *)
(* position fix, and the number of fetch calls whose promise has not yet   *)
(* been handled.  requests holds the fetch calls in flight; the route      *)
(* handler answers them with the steps of POST explore-grid.               *)
(***************************************************************************)
ClientUser == "u1"

\* the fixes the geolocation watch delivers
ClientFixes == {b \in Bodies : IsNumber(b.lat) /\ IsNumber(b.lon)}

\* coordinateToGridId(latitude, longitude) of the fixes, computed once
ClientGridIds ==
  [b \in ClientFixes |->
     Call("coordinateToGridId",
          <<Call("JsonNumber", <<b.lat>>), Call("JsonNumber", <<b.lon>>)>>)]
    @@ << >>

InFlight == {r \in Requests : requests[r].pc # "idle"}

\* a response has arrived that exploreGrid has not handled yet
ResponseWaiting == args.unresolved > Cardinality(InFlight)

InitClient ==
  /\ Constructed
  /\ args = [currentGridIdRef |-> null, exploredGrids |-> << >>,
             position |-> null, unresolved |-> 0]

\* the watchPosition (and getCurrentPosition) callback: a fix in a cell
\* other than the current one sets currentGridIdRef and calls exploreGrid,
\* which sends the POST
WatchPosition(r, body) ==
  /\ IF ClientGridIds[body] # null
        /\ ClientGridIds[body] # args.currentGridIdRef
       THEN /\ requests[r].pc = "idle"
            /\ args' = [args EXCEPT !.currentGridIdRef = ClientGridIds[body],
                                    !.position = body,
                                    !.unresolved = @ + 1]
            /\ requests' = [requests EXCEPT ![r] =
                 [pc |-> "fetch", route |-> "POST explore-grid",
                  userId |-> ClientUser, body |-> body, gridId |-> null,
                  coordinate |-> null, existing |-> null]]
     ELSE /\ args' = [args EXCEPT !.position = body]
          /\ UNCHANGED requests
  /\ UNCHANGED <<footprints, cachedAllTaiwanGridIds, clock, dbAvailable,
                 result,
                 taskTables, mapTables>>

\* POST explore-grid for a fetch of the page: session, body, bounds check,
\* grid id, center
FetchExploreGridPost(r) ==
  /\ requests[r].pc = "fetch"
  /\ ~ResponseWaiting
  /\ IF ~ExploreGridInputs[requests[r].body].ok
       THEN Done(r, [status |-> ExploreGridInputs[requests[r].body].status,
                     error |-> ExploreGridInputs[requests[r].body].error])
     ELSE /\ requests' = [requests EXCEPT
               ![r].pc = "findFirst",
               ![r].gridId = ExploreGridInputs[requests[r].body].gridId,
               ![r].coordinate =
                 ExploreGridInputs[requests[r].body].coordinate]
          /\ UNCHANGED result
  /\ UNCHANGED <<footprints, cachedAllTaiwanGridIds, clock, dbAvailable,
                 args,
                 taskTables, mapTables>>

FetchExploreGridFindFirst(r) ==
  /\ ~ResponseWaiting
  /\ ExploreGridFindFirst(r)

FetchExploreGridCreate(r) ==
  /\ ~ResponseWaiting
  /\ ExploreGridCreate(r)

\* exploreGrid after await fetch: a created footprint is put in front of
\* exploredGrids; any other response, and a response that is not ok,
\* changes nothing
ExploreGridResolved ==
  /\ ResponseWaiting
  /\ args' = [args EXCEPT
       !.unresolved = @ - 1,
       !.exploredGrids =
         IF /\ result.response.status = 200
            /\ result.response.success
            /\ ~result.response.alreadyExplored
           THEN <<[gridId |-> result.response.footprint.gridId,
                   coordinate |-> result.response.footprint.coordinate]>>
                \o @
         ELSE @]
  /\ UNCHANGED <<footprints, cachedAllTaiwanGridIds, requests, clock,
                 dbAvailable, result,
                 taskTables, mapTables>>

NextClient ==
  \/ \E r \in Requests, body \in ClientFixes : WatchPosition(r, body)
  \/ \E r \in Requests : FetchExploreGridPost(r)
  \/ \E r \in Requests : FetchExploreGridFindFirst(r)
  \/ \E r \in Requests : FetchExploreGridCreate(r)
  \/ ExploreGridResolved
  \/ DatabaseDown
  \/ DatabaseUp

SpecClient == InitClient /\ [][NextClient]_vars

\* the event loop runs every callback that is due, the route handler
\* answers every request, position fixes keep arriving, and a database
\* that is down comes up again
SpecClientLive ==
  /\ SpecClient
  /\ WF_vars(\E r \in Requests, body \in ClientFixes : WatchPosition(r, body))
  /\ WF_vars(\E r \in Requests : FetchExploreGridPost(r))
  /\ WF_vars(\E r \in Requests : FetchExploreGridFindFirst(r))
  /\ WF_vars(\E r \in Requests : FetchExploreGridCreate(r))
  /\ WF_vars(ExploreGridResolved)
  /\ WF_vars(DatabaseUp)

(***************************************************************************)
(* POST /api/footprint/refresh-main-task.  Dates are days; no request of   *)
(* a behaviour crosses midnight, so getTodayDate() is Today throughout.    *)
(* A task row is [id, isMainTask, isTemporary, assignedUserId,             *)
(* Create_time, refreshDate], a UserTask row [user_id, task_id, isDone].   *)
(* clock gives the id of the next task created.                            *)
(***************************************************************************)
Today == 10
SevenDaysAgo == Today - 7
TaskTarget == 3

MainTaskRow(id, userId, created, refreshDate) ==
  [id |-> id, isMainTask |-> TRUE, isTemporary |-> FALSE,
   assignedUserId |-> userId, Create_time |-> created,
   refreshDate |-> refreshDate]

TemporaryTaskRow(id, created) ==
  [id |-> id, isMainTask |-> FALSE, isTemporary |-> TRUE,
   assignedUserId |-> NoSession, Create_time |-> created,
   refreshDate |-> created]

UserTaskRow(userId, taskId) ==
  [user_id |-> userId, task_id |-> taskId, isDone |-> FALSE]

\* the stores a request may meet: empty; two main tasks of yesterday; three
\* main tasks of today; a main task of today and a temporary task the user
\* has joined; a main task older than seven days.  The tasks of earlier
\* days have no UserTask rows.
TaskStores ==
  { [tasks |-> << >>, userTasks |-> << >>],
    [tasks |-> <<MainTaskRow(101, "u1", Today - 1, Today - 1),
                 MainTaskRow(102, "u1", Today - 1, Today - 1)>>,
     userTasks |-> << >>],
    [tasks |-> <<MainTaskRow(101, "u1", Today, Today),
                 MainTaskRow(102, "u1", Today, Today),
                 MainTaskRow(103, "u1", Today, Today)>>,
     userTasks |-> <<UserTaskRow("u1", 101), UserTaskRow("u1", 102),
                     UserTaskRow("u1", 103)>>],
    [tasks |-> <<MainTaskRow(101, "u1", Today, Today),
                 TemporaryTaskRow(102, Today)>>,
     userTasks |-> <<UserTaskRow("u1", 101), UserTaskRow("u1", 102)>>],
    [tasks |-> <<MainTaskRow(101, "u1", Today - 8, Today - 8)>>,
     userTasks |-> << >>] }

\* how many attractions fetchNearbyAttractions finds
AttractionCounts == {0, 2, 3}

\* task.deleteMany({ where: { Create_time: { lt: sevenDaysAgo } } })
TaskDeleteOlderThan(table, day) ==
  SelectSeq(table, LAMBDA t : ~(t.Create_time < day))

\* task.findMany({ isMainTask, assignedUserId, Create_time gte })
UserMainTasks(table, userId) ==
  SelectSeq(table, LAMBDA t : /\ t.isMainTask
                              /\ t.assignedUserId = userId
                              /\ t.Create_time >= SevenDaysAgo)

\* userTask.findMany({ user_id, task: { Create_time gte, isTemporary } })
UserTemporaryTasks(table, links, userId) ==
  SelectSeq(links, LAMBDA ut :
    /\ ut.user_id = userId
    /\ \E i \in 1..Len(table) : /\ table[i].id = ut.task_id
                                /\ table[i].Create_time >= SevenDaysAgo
                                /\ table[i].isTemporary)

\* the rows task.findFirst({ isMainTask, assignedUserId, refreshDate gte
\* today }) may return
TodayMainTasks(table, userId) ==
  {table[i] : i \in {j \in 1..Len(table) :
                       /\ table[j].isMainTask
                       /\ table[j].assignedUserId = userId
                       /\ table[j].refreshDate >= Today}}

\* task.deleteMany({ isMainTask, assignedUserId, refreshDate lt today })
TaskDeleteOldMain(table, userId) ==
  SelectSeq(table, LAMBDA t : ~(/\ t.isMainTask
                                /\ t.assignedUserId = userId
                                /\ t.refreshDate < Today))

\* task.create: a main task of the user, refreshDate today, created now
TaskCreate(table, id, userId) ==
  Append(table, MainTaskRow(id, userId, Today, Today))

\* Math.max(0, 3 - currentTaskCount)
TasksNeeded(currentTaskCount) ==
  IF TaskTarget - currentTaskCount > 0 THEN TaskTarget - currentTaskCount
  ELSE 0

\* Math.max(1, Math.min(tasksNeeded, 3))
TasksToGenerate(tasksNeeded) ==
  IF tasksNeeded > TaskTarget THEN TaskTarget
  ELSE IF tasksNeeded < 1 THEN 1 ELSE tasksNeeded

RefreshRoute == "POST refresh-main-task"

CurrentTaskCount(run) == run.mainCount + run.temporaryCount

\* the loop condition of the for statement, after createdCount iterations
LoopGoesOn(run) ==
  /\ run.created < TasksToGenerate(TasksNeeded(CurrentTaskCount(run)))
  /\ run.created < run.attractions

InitTask ==
  /\ footprints = << >>
  /\ cachedAllTaiwanGridIds = null
  /\ requests = [r \in Requests |-> IdleRequest]
  /\ clock = 1
  /\ dbAvailable = TRUE
  /\ args = null
  /\ result = null
  /\ mapRecords = << >>
  /\ mapRecordPictures = << >>
  /\ \E store \in TaskStores :
       /\ tasks = store.tasks
       /\ userTasks = store.userTasks

\* requireAuth, the body, and the deleteMany of the tasks older than seven
\* days
RefreshMainTaskPost(r, session, attractions) ==
  /\ requests[r].pc = "idle"
  /\ IF session = NoSession
       THEN /\ Respond(RefreshRoute, session, null,
                       [status |-> 401, error |-> "UNAUTHORIZED"])
            /\ UNCHANGED tasks
     ELSE /\ tasks' = TaskDeleteOlderThan(tasks, SevenDaysAgo)
          /\ requests' = [requests EXCEPT ![r] =
               [pc |-> "findManyMain", route |-> RefreshRoute,
                userId |-> session, body |-> null,
                attractions |-> attractions, mainCount |-> 0,
                temporaryCount |-> 0, existingMainTask |-> null,
                created |-> 0, taskId |-> 0]]
          /\ UNCHANGED result
  /\ UNCHANGED <<footprints, cachedAllTaiwanGridIds, clock, dbAvailable,
                 args, userTasks, mapTables>>

\* userMainTasks = await task.findMany(...)
RefreshFindManyMain(r) ==
  /\ requests[r].pc = "findManyMain"
  /\ requests' = [requests EXCEPT
       ![r].pc = "findManyTemporary",
       ![r].mainCount = Len(UserMainTasks(tasks, requests[r].userId))]
  /\ UNCHANGED <<footprints, cachedAllTaiwanGridIds, clock, dbAvailable,
                 args, result, taskTables, mapTables>>

\* userTemporaryTasks = await userTask.findMany(...)
RefreshFindManyTemporary(r) ==
  /\ requests[r].pc = "findManyTemporary"
  /\ requests' = [requests EXCEPT
       ![r].pc = "findFirst",
       ![r].temporaryCount =
         Len(UserTemporaryTasks(tasks, userTasks, requests[r].userId))]
  /\ UNCHANGED <<footprints, cachedAllTaiwanGridIds, clock, dbAvailable,
                 args, result, taskTables, mapTables>>

\* existingMainTask = await task.findFirst(...), and the two early returns
RefreshFindFirst(r) ==
  /\ requests[r].pc = "findFirst"
  /\ \E existingMainTask \in
          IF TodayMainTasks(tasks, requests[r].userId) = {} THEN {null}
          ELSE TodayMainTasks(tasks, requests[r].userId) :
       IF \/ CurrentTaskCount(requests[r]) >= TaskTarget
             /\ existingMainTask # null
          \/ TasksNeeded(CurrentTaskCount(requests[r])) = 0
         THEN Done(r, [status |-> 200, task |-> existingMainTask,
                       refreshed |-> FALSE,
                       currentTaskCount |-> CurrentTaskCount(requests[r])])
       ELSE /\ requests' = [requests EXCEPT
                 ![r].pc = "fetchNearbyAttractions",
                 ![r].existingMainTask = existingMainTask]
            /\ UNCHANGED result
  /\ UNCHANGED <<footprints, cachedAllTaiwanGridIds, clock, dbAvailable,
                 args, taskTables, mapTables>>

\* attractions = await fetchNearbyAttractions(...): it may throw, and it
\* may find nothing; else the for loop starts
RefreshFetchNearbyAttractions(r, throws) ==
  /\ requests[r].pc = "fetchNearbyAttractions"
  /\ IF throws
       THEN Done(r, [status |-> 500, error |-> "INTERNAL_ERROR"])
     ELSE IF requests[r].attractions = 0
       THEN Done(r, [status |-> 404, error |-> "NOT_FOUND"])
     ELSE /\ requests' = [requests EXCEPT ![r].pc =
               IF requests[r].existingMainTask = null
                 THEN "deleteMany" ELSE "create"]
          /\ UNCHANGED result
  /\ UNCHANGED <<footprints, cachedAllTaiwanGridIds, clock, dbAvailable,
                 args, taskTables, mapTables>>

\* i === 0 && !existingMainTask: the main tasks of earlier days are deleted
RefreshDeleteMany(r) ==
  /\ requests[r].pc = "deleteMany"
  /\ tasks' = TaskDeleteOldMain(tasks, requests[r].userId)
  /\ requests' = [requests EXCEPT ![r].pc = "create"]
  /\ UNCHANGED <<footprints, cachedAllTaiwanGridIds, clock, dbAvailable,
                 args, result, userTasks, mapTables>>

\* task = await task.create(...)
RefreshCreate(r) ==
  /\ requests[r].pc = "create"
  /\ tasks' = TaskCreate(tasks, clock, requests[r].userId)
  /\ clock' = clock + 1
  /\ requests' = [requests EXCEPT ![r].pc = "findUnique",
                                  ![r].taskId = clock]
  /\ UNCHANGED <<footprints, cachedAllTaiwanGridIds, dbAvailable, args,
                 result, userTasks, mapTables>>

\* existingUserTask = await userTask.findUnique(...)
RefreshFindUnique(r) ==
  /\ requests[r].pc = "findUnique"
  /\ requests' = [requests EXCEPT ![r].pc =
       IF \E i \in 1..Len(userTasks) :
            /\ userTasks[i].user_id = requests[r].userId
            /\ userTasks[i].task_id = requests[r].taskId
         THEN "update" ELSE "createUserTask"]
  /\ UNCHANGED <<footprints, cachedAllTaiwanGridIds, clock, dbAvailable,
                 args, result, taskTables, mapTables>>

\* userTask.create(...), createdTasks.push, and the next iteration or the
\* response
RefreshCreateUserTask(r) ==
  /\ requests[r].pc = "createUserTask"
  /\ userTasks' = Append(userTasks,
                         UserTaskRow(requests[r].userId, requests[r].taskId))
  /\ LET run == [requests[r] EXCEPT !.created = @ + 1]
     IN  IF LoopGoesOn(run)
           THEN /\ requests' = [requests EXCEPT ![r] =
                                  [run EXCEPT !.pc = "create"]]
                /\ UNCHANGED result
         ELSE Done(r, [status |-> 200, refreshed |-> TRUE,
                       currentTaskCount |->
                         CurrentTaskCount(run) + run.created,
                       tasksGenerated |-> run.created])
  /\ UNCHANGED <<footprints, cachedAllTaiwanGridIds, clock, dbAvailable,
                 args, tasks, mapTables>>

NextTask ==
  \/ \E r \in Requests, session \in {ClientUser, NoSession},
        attractions \in AttractionCounts :
       RefreshMainTaskPost(r, session, attractions)
  \/ \E r \in Requests : RefreshFindManyMain(r)
  \/ \E r \in Requests : RefreshFindManyTemporary(r)
  \/ \E r \in Requests : RefreshFindFirst(r)
  \/ \E r \in Requests, throws \in BOOLEAN :
       RefreshFetchNearbyAttractions(r, throws)
  \/ \E r \in Requests : RefreshDeleteMany(r)
  \/ \E r \in Requests : RefreshCreate(r)
  \/ \E r \in Requests : RefreshFindUnique(r)
  \/ \E r \in Requests : RefreshCreateUserTask(r)

SpecTask == InitTask /\ [][NextTask]_vars


\* ------------------------------------------------------------------
\* The map-records route: POST, PUT and DELETE over the MapRecord and
\* MapRecordPicture tables
\* ------------------------------------------------------------------

MapRecordPostRoute == "POST map-records"
MapRecordPutRoute == "PUT map-records"
MapRecordDeleteRoute == "DELETE map-records"

MapRecordUsers == {"u1", "u2"}

\* the record ids the requests name: the stored record, the id POST hands
\* out, and one id of no record
StoredRecordId == 101
MissingRecordId == 109
RequestedRecordIds == {StoredRecordId, 1, MissingRecordId}

MapRecordRow(id, userId, name, description, coordinate) ==
  [id |-> id, user_id |-> userId, name |-> name,
   description |-> description, coordinate |-> coordinate]

MapRecordPictureRow(recordId, picture) ==
  [record_id |-> recordId, picture |-> picture]

\* pictures.map(picture => ({ record_id: id, picture }))
PictureRows(recordId, pictures) ==
  [i \in 1..Len(pictures) |-> MapRecordPictureRow(recordId, pictures[i])]
    @@ << >>

\* description || null, coordinate || null: undefined and '' become null
OrNull(value) == IF value = null \/ value = [txt |-> ""] THEN null ELSE value

\* the bodies of POST: the name may be absent
MapRecordPostBodies ==
  [name : {[txt |-> "new"], null},
   description : {[txt |-> ""]},
   coordinate : {[txt |-> "25.03,121.56"]},
   pictures : {[list |-> <<"p0">>]}]

\* the bodies of PUT: the id and the name may be absent, pictures may be
\* undefined (null here), empty, or one picture
MapRecordPutBodies ==
  [id : {[id |-> i] : i \in RequestedRecordIds} \cup {null},
   name : {[txt |-> "new"], null},
   description : {[txt |-> ""]},
   coordinate : {[txt |-> "25.03,121.56"]},
   pictures : {null, [list |-> << >>], [list |-> <<"q">>]}]

\* mapRecord.findUnique({ where: { id } })
MapRecordFindUnique(table, id) ==
  IF \E i \in 1..Len(table) : table[i].id = id
    THEN table[CHOOSE i \in 1..Len(table) : table[i].id = id]
  ELSE null

\* the pictures of a record, in the order of the table
PicturesOfRecord(table, id) == SelectSeq(table, LAMBDA p : p.record_id = id)

\* a check that lets every user through
MapRecordAccessOfAnyUser(existingRecord, userId) ==
  IF existingRecord = null THEN "NOT_FOUND" ELSE "OK"

\* if (!existingRecord) NOT_FOUND; if (existingRecord.user_id !== userId)
\* FORBIDDEN
MapRecordAccess(existingRecord, userId) ==
  IF existingRecord = null THEN "NOT_FOUND"
  ELSE IF existingRecord.user_id # userId THEN "FORBIDDEN"
  ELSE "OK"

AccessStatus(access) == IF access = "NOT_FOUND" THEN 404 ELSE 403

\* mapRecord.update({ where: { id }, data: { name, description, coordinate } })
MapRecordUpdate(table, id, body) ==
  [i \in 1..Len(table) |->
     IF table[i].id = id
       THEN [table[i] EXCEPT !.name = body.name,
                             !.description = OrNull(body.description),
                             !.coordinate = OrNull(body.coordinate)]
     ELSE table[i]] @@ << >>

\* mapRecordPicture.deleteMany({ where: { record_id: id } }); the cascade of
\* mapRecord.delete removes the same rows
MapRecordPictureDeleteMany(table, id) ==
  SelectSeq(table, LAMBDA p : p.record_id # id)

\* mapRecord.delete({ where: { id } })
MapRecordDeleteRow(table, id) == SelectSeq(table, LAMBDA m : m.id # id)

InitMapRecord ==
  /\ footprints = << >>
  /\ cachedAllTaiwanGridIds = null
  /\ requests = [r \in Requests |-> IdleRequest]
  /\ clock = 1
  /\ dbAvailable = TRUE
  /\ args = null
  /\ result = null
  /\ tasks = << >>
  /\ userTasks = << >>
  /\ mapRecords = <<MapRecordRow(StoredRecordId, "u1", [txt |-> "home"],
                                 null, null)>>
  /\ mapRecordPictures = <<MapRecordPictureRow(StoredRecordId, "p1")>>

\* POST: requireAuth, the name check, and one nested create
MapRecordPost(session, body) ==
  /\ clock = 1
  /\ IF session = NoSession
       THEN /\ Respond(MapRecordPostRoute, session, body,
                       [status |-> 401, error |-> "UNAUTHORIZED"])
            /\ UNCHANGED <<clock, mapTables>>
     ELSE IF body.name = null
       THEN /\ Respond(MapRecordPostRoute, session, body,
                       [status |-> 400, error |-> "BAD_REQUEST"])
            /\ UNCHANGED <<clock, mapTables>>
     ELSE /\ mapRecords' = Append(mapRecords,
               MapRecordRow(clock, session, body.name,
                            OrNull(body.description),
                            OrNull(body.coordinate)))
          /\ mapRecordPictures' = mapRecordPictures \o
               PictureRows(clock, IF body.pictures = null THEN << >>
                                  ELSE body.pictures.list)
          /\ clock' = clock + 1
          /\ Respond(MapRecordPostRoute, session, body,
                     [status |-> 200, record |-> clock])
  /\ UNCHANGED <<footprints, cachedAllTaiwanGridIds, dbAvailable, args,
                 taskTables>>

\* PUT: requireAuth and the checks of id and name
MapRecordPut(r, session, body) ==
  /\ requests[r].pc = "idle"
  /\ clock < MaxClock
  /\ IF session = NoSession
       THEN Respond(MapRecordPutRoute, session, body,
                    [status |-> 401, error |-> "UNAUTHORIZED"])
     ELSE IF body.id = null \/ body.name = null
       THEN Respond(MapRecordPutRoute, session, body,
                    [status |-> 400, error |-> "BAD_REQUEST"])
     ELSE /\ requests' = [requests EXCEPT ![r] =
               [pc |-> "putFindUnique", route |-> MapRecordPutRoute,
                userId |-> session, body |-> body]]
          /\ UNCHANGED result
  /\ UNCHANGED <<footprints, cachedAllTaiwanGridIds, clock, dbAvailable,
                 args, taskTables, mapTables>>

\* existingRecord = await mapRecord.findUnique(...), then 404 or 403
MapRecordPutFindUnique(r) ==
  /\ requests[r].pc = "putFindUnique"
  /\ LET access == MapRecordAccess(
                     MapRecordFindUnique(mapRecords, requests[r].body.id.id),
                     requests[r].userId)
     IN  IF access # "OK"
           THEN Done(r, [status |-> AccessStatus(access), error |-> access])
         ELSE /\ requests' = [requests EXCEPT ![r].pc = "putUpdate"]
              /\ UNCHANGED result
  /\ UNCHANGED <<footprints, cachedAllTaiwanGridIds, clock, dbAvailable,
                 args, taskTables, mapTables>>

\* updatedRecord = await mapRecord.update(...): it throws when the record
\* is gone
MapRecordPutUpdate(r) ==
  /\ requests[r].pc = "putUpdate"
  /\ IF MapRecordFindUnique(mapRecords, requests[r].body.id.id) = null
       THEN /\ Done(r, [status |-> 500, error |-> "INTERNAL_ERROR"])
            /\ UNCHANGED <<clock, mapRecords>>
     ELSE /\ mapRecords' = MapRecordUpdate(mapRecords, requests[r].body.id.id,
                                           requests[r].body)
          /\ clock' = clock + 1
          /\ requests' = [requests EXCEPT ![r].pc =
               IF requests[r].body.pictures # null
                 THEN "putDeleteMany" ELSE "putFinal"]
          /\ UNCHANGED result
  /\ UNCHANGED <<footprints, cachedAllTaiwanGridIds, dbAvailable, args,
                 taskTables, mapRecordPictures>>

\* await mapRecordPicture.deleteMany(...)
MapRecordPutDeleteMany(r) ==
  /\ requests[r].pc = "putDeleteMany"
  /\ mapRecordPictures' = MapRecordPictureDeleteMany(mapRecordPictures,
                                                     requests[r].body.id.id)
  /\ requests' = [requests EXCEPT ![r].pc =
       IF Len(requests[r].body.pictures.list) > 0
         THEN "putCreateMany" ELSE "putFinal"]
  /\ UNCHANGED <<footprints, cachedAllTaiwanGridIds, clock, dbAvailable,
                 args, result, taskTables, mapRecords>>

\* await mapRecordPicture.createMany(...): the pictures belong to a record,
\* so it throws when the record is gone
MapRecordPutCreateMany(r) ==
  /\ requests[r].pc = "putCreateMany"
  /\ IF MapRecordFindUnique(mapRecords, requests[r].body.id.id) = null
       THEN /\ Done(r, [status |-> 500, error |-> "INTERNAL_ERROR"])
            /\ UNCHANGED mapRecordPictures
     ELSE /\ mapRecordPictures' = mapRecordPictures \o
               PictureRows(requests[r].body.id.id,
                           requests[r].body.pictures.list)
          /\ requests' = [requests EXCEPT ![r].pc = "putFinal"]
          /\ UNCHANGED result
  /\ UNCHANGED <<footprints, cachedAllTaiwanGridIds, clock, dbAvailable,
                 args, taskTables, mapRecords>>

\* finalRecord = await mapRecord.findUnique(...), and the response
MapRecordPutFinal(r) ==
  /\ requests[r].pc = "putFinal"
  /\ Done(r, [status |-> 200,
              record |-> MapRecordFindUnique(mapRecords,
                                             requests[r].body.id.id),
              pictures |-> PicturesOfRecord(mapRecordPictures,
                                            requests[r].body.id.id)])
  /\ UNCHANGED <<footprints, cachedAllTaiwanGridIds, clock, dbAvailable,
                 args, taskTables, mapTables>>

\* DELETE: requireAuth and the check of the id
MapRecordDelete(r, session, id) ==
  /\ requests[r].pc = "idle"
  /\ clock < MaxClock
  /\ IF session = NoSession
       THEN Respond(MapRecordDeleteRoute, session, [id |-> id],
                    [status |-> 401, error |-> "UNAUTHORIZED"])
     ELSE IF id = null
       THEN Respond(MapRecordDeleteRoute, session, [id |-> id],
                    [status |-> 400, error |-> "BAD_REQUEST"])
     ELSE /\ requests' = [requests EXCEPT ![r] =
               [pc |-> "deleteFindUnique", route |-> MapRecordDeleteRoute,
                userId |-> session, body |-> [id |-> id]]]
          /\ UNCHANGED result
  /\ UNCHANGED <<footprints, cachedAllTaiwanGridIds, clock, dbAvailable,
                 args, taskTables, mapTables>>

\* existingRecord = await mapRecord.findUnique(...), then 404 or 403
MapRecordDeleteFindUnique(r) ==
  /\ requests[r].pc = "deleteFindUnique"
  /\ LET access == MapRecordAccess(
                     MapRecordFindUnique(mapRecords, requests[r].body.id.id),
                     requests[r].userId)
     IN  IF access # "OK"
           THEN Done(r, [status |-> AccessStatus(access), error |-> access])
         ELSE /\ requests' = [requests EXCEPT ![r].pc = "delete"]
              /\ UNCHANGED result
  /\ UNCHANGED <<footprints, cachedAllTaiwanGridIds, clock, dbAvailable,
                 args, taskTables, mapTables>>

\* await mapRecord.delete(...): the pictures go with the record; it throws
\* when the record is gone
MapRecordDeleteDelete(r) ==
  /\ requests[r].pc = "delete"
  /\ IF MapRecordFindUnique(mapRecords, requests[r].body.id.id) = null
       THEN /\ Done(r, [status |-> 500, error |-> "INTERNAL_ERROR"])
            /\ UNCHANGED <<clock, mapTables>>
     ELSE /\ mapRecords' = MapRecordDeleteRow(mapRecords,
                                              requests[r].body.id.id)
          /\ clock' = clock + 1
          /\ mapRecordPictures' = MapRecordPictureDeleteMany(
               mapRecordPictures, requests[r].body.id.id)
          /\ Done(r, [status |-> 200, deleted |-> TRUE])
  /\ UNCHANGED <<footprints, cachedAllTaiwanGridIds, dbAvailable, args,
                 taskTables>>

NextMapRecord ==
  \/ \E session \in MapRecordUsers \cup {NoSession},
        body \in MapRecordPostBodies : MapRecordPost(session, body)
  \/ \E r \in Requests, session \in MapRecordUsers \cup {NoSession},
        body \in MapRecordPutBodies : MapRecordPut(r, session, body)
  \/ \E r \in Requests : MapRecordPutFindUnique(r)
  \/ \E r \in Requests : MapRecordPutUpdate(r)
  \/ \E r \in Requests : MapRecordPutDeleteMany(r)
  \/ \E r \in Requests : MapRecordPutCreateMany(r)
  \/ \E r \in Requests : MapRecordPutFinal(r)
  \/ \E r \in Requests, session \in MapRecordUsers \cup {NoSession},
        id \in {[id |-> i] : i \in RequestedRecordIds} \cup {null} :
       MapRecordDelete(r, session, id)
  \/ \E r \in Requests : MapRecordDeleteFindUnique(r)
  \/ \E r \in Requests : MapRecordDeleteDelete(r)

SpecMapRecord == InitMapRecord /\ [][NextMapRecord]_vars

(***************************************************************************)
(* Properties.                                                             *)
(***************************************************************************)

\* ---- coordinateToGridId (SpecGrid)
\* the decimal digits of the input lie within the bounds, both ends included
FixInRegion(a) ==
  /\ WinMinLatMilli * 10 <= a.lat4 /\ a.lat4 <= WinMaxLatMilli * 10
  /\ WinMinLonCenti * 100 <= a.lon4 /\ a.lon4 <= WinMaxLonCenti * 100

\* C9: coordinateToGridId returns null exactly when the coordinate is not
\* within minLat <= lat <= maxLat and minLon <= lon <= maxLon, both ends
\* included, and isInTaiwanBounds is that test
NullIffOutOfRegion ==
  result # null =>
    /\ result.inBounds <=> FixInRegion(args)
    /\ result.gridId = null <=> ~FixInRegion(args)

\* the coordinate (maxLat, maxLon) got an id
NorthEastCornerHasId ==
  /\ result # null
  /\ args.lat4 = WinMaxLatMilli * 10
  /\ args.lon4 = WinMaxLonCenti * 100
  /\ result.gridId # null

\* C10: the corner in the id of an in-region coordinate is a multiple of
\* the steps and the coordinate lies in [corner, corner + step) on both
\* axes
CornerIsFloorOfCoordinate ==
  (result # null /\ result.gridId # null) =>
    /\ result.gridId.lat3 % 9 = 0
    /\ result.gridId.lat3 * 10 <= args.lat4
    /\ args.lat4 < (result.gridId.lat3 + 9) * 10
    /\ result.gridId.lon2 * 100 <= args.lon4
    /\ args.lon4 < (result.gridId.lon2 + 1) * 100


\* ---- the percentage of two counts (SpecPercentage)
Abs(n) == IF n < 0 THEN -n ELSE n

\* C8 as stated: the percentage of GET mist-percentage is exactly
\* 100 * exploredCount / totalGrids, and 0 when totalGrids is 0
PercentageIsExactQuotient ==
  (result # null /\ result.applied = "MistPercentage") =>
    IF args.totalGrids = 0 THEN result.percentage = DZero
    ELSE /\ result.percentage = DFromInt(DFloor(result.percentage))
         /\ DFloor(result.percentage) * args.totalGrids =
              100 * args.exploredCount

\* C8, amended: the percentage is 100 * exploredCount / totalGrids rounded
\* to the nearest integer by the Math.round handler and to the nearest
\* hundredth by the toFixed(2) handler, and 0 when totalGrids is 0
PercentageIsRoundedQuotient ==
  result # null =>
    IF args.totalGrids = 0 THEN result.percentage = DZero
    ELSE IF result.applied = "MistPercentage"
      THEN /\ result.percentage = DFromInt(DFloor(result.percentage))
           /\ 2 * Abs(DFloor(result.percentage) * args.totalGrids -
                      100 * args.exploredCount) <= args.totalGrids
      ELSE /\ result.percentage =
                DFromDecimal(ToFixed(result.percentage, 2), 2)
           /\ 2 * Abs(ToFixed(result.percentage, 2) * args.totalGrids -
                      10000 * args.exploredCount) <= args.totalGrids

\* 1 explored of 4 gave 25
OneOfFourIsTwentyFive ==
  /\ result # null
  /\ result.applied = "MistPercentage"
  /\ args = [exploredCount |-> 1, totalGrids |-> 4]
  /\ result.percentage = DFromInt(25)


\* ---- the explored set and the percentage of a table (SpecCoverage)
Range(s) == {s[i] : i \in 1..Len(s)}

Pow10(k) == <<1, 10, 100, 1000, 10000>>[k + 1]

\* a decimal string of at most BodyDigits decimals, in ten-thousandths
TextFix(part) ==
  (IF part.neg THEN -1 ELSE 1) * BToInt(part.n) * Pow10(BodyDigits - part.d)

\* a coordinate string "<number>,<number>..." whose numbers lie within the
\* bounds
ParsableInRegion(coordinate) ==
  /\ coordinate # null
  /\ Len(coordinate.parts) >= 2
  /\ "n" \in DOMAIN coordinate.parts[1]
  /\ "n" \in DOMAIN coordinate.parts[2]
  /\ FixInRegion([lat4 |-> TextFix(coordinate.parts[1]),
                  lon4 |-> TextFix(coordinate.parts[2])])

\* coordinateToGridId of the two numbers of a coordinate string
CellOfString(coordinate) == GridIdOf(coordinate)

\* the cells of the reader's rows of a table
CellsOf(table) ==
  {CellOfString(r.coordinate) :
     r \in {x \in Range(table) :
              x.user_id = CoverageUser /\ ParsableInRegion(x.coordinate)}}

TableWithAdded == Append(args.records, args.added)

Reorderings(table) ==
  IF Len(table) > MaxRecords + 1 THEN {table}
  ELSE {[i \in 1..Len(table) |-> table[p[i]]] :
          p \in Permutations(1..Len(table))}

\* C5: the explored set of a list of records is exactly the set of cells
\* of its records with a parsable in-region coordinate; other records add
\* nothing, records of one cell add one element, and every order of the
\* list gives the same set
ExploredSetIsCellsOfRecords ==
  (result # null /\ result.applied = "exploredGridIds") =>
    /\ Range(result.explored) = CellsOf(TableWithAdded)
    /\ null \notin Range(result.explored)
    /\ Len(result.explored) = Cardinality(CellsOf(TableWithAdded))
    /\ \A t \in Reorderings(TableWithAdded) :
         Range(exploredGridIds(FindMany(t, CoverageUser))) =
           Range(result.explored)

\* (25.0330, 121.5654) and (25.0335, 121.5658) gave a set of size 1
SamplePairIsOneCell ==
  /\ result # null
  /\ result.applied = "exploredGridIds"
  /\ args.records = <<Row("u1", RawCoordinate(250330, 1215654))>>
  /\ args.added = Row("u1", RawCoordinate(250335, 1215658))
  /\ Len(result.explored) = 1


IsPercentageRead ==
  /\ result # null
  /\ result.applied \in {"MistPercentageGET", "MistPercentageFixed2GET"}

\* C6: the percentage read after one more record is greater than or equal
\* to the percentage read before it
CoverageNeverDecreases ==
  IsPercentageRead => DLe(result.before.percentage, result.after.percentage)

\* a record in a second cell raised the Math.round percentage
SecondCellRaisedPercentage ==
  /\ IsPercentageRead
  /\ result.applied = "MistPercentageGET"
  /\ Len(args.records) = 1
  /\ DLt(result.before.percentage, result.after.percentage)


\* the added record maps to a cell that the records had explored
AddedCellWasExplored ==
  /\ CellsOf(<<args.added>>) # {}
  /\ CellsOf(<<args.added>>) \subseteq CellsOf(args.records)

\* C7 as stated: the percentage stays the same if and only if the added
\* record maps to a cell that was already explored
SameIffAlreadyExplored ==
  IsPercentageRead =>
    (result.after.percentage = result.before.percentage
       <=> AddedCellWasExplored)

\* C7, amended: the percentage stays the same if the added record maps to
\* a cell that was already explored, or to no cell
SameIfNoNewCell ==
  IsPercentageRead =>
    ((AddedCellWasExplored \/ CellsOf(<<args.added>>) = {}) =>
       result.after.percentage = result.before.percentage)

\* every cell was explored and one more record in one of them left the
\* percentage at 100
RevisitKeptHundred ==
  /\ IsPercentageRead
  /\ args.records = FullVisits
  /\ AddedCellWasExplored
  /\ result.before.percentage = DFromInt(100)
  /\ result.after.percentage = DFromInt(100)


\* C1: the percentage computed from the explored cells of any records
\* with accepted coordinates and the length of getAllTaiwanGridIds is a
\* number from 0 to 100 (stated for the handler that keeps two decimals)
PercentageWithinHundred ==
  (result # null /\ result.applied = "MistPercentageFixed2GET") =>
    /\ DLe(DZero, result.before.percentage)
    /\ DLe(result.before.percentage, DFromInt(100))
    /\ DLe(DZero, result.after.percentage)
    /\ DLe(result.after.percentage, DFromInt(100))


\* ---- the handlers and the store (Spec)
\* the grid ids GET explored-grids derives from the rows of a user
ExploredOf(table, userId) ==
  {g.gridId : g \in Range(ExploredGrids(FindMany(table, userId)))}

\* C2: a cell in a user's derived explored set stays in it: no step of
\* any handler, accepted or rejected, takes a cell out
ExploredStaysExplored ==
  [][\A u \in Users :
       ExploredOf(footprints, u) \subseteq ExploredOf(footprints', u)]_vars

\* a read returned a grid after a row of its cell had been written twice
ReadAfterRevisit ==
  /\ result # null
  /\ result.route = "GET explored-grids"
  /\ Len(result.response.data.grids) = 1
  /\ \E i \in 1..Len(footprints) :
       /\ footprints[i].user_id = result.userId
       /\ footprints[i].Update_time > footprints[i].Create_time


\* C3: under every interleaving of the handlers the store holds at most
\* one row for one user and one coordinate string
OneRowPerUserAndCoordinate ==
  \A i, j \in 1..Len(footprints) :
    (/\ footprints[i].user_id = footprints[j].user_id
     /\ footprints[i].coordinate = footprints[j].coordinate) => i = j


\* a body of two numbers that are not both within the bounds
OutOfRegionBody(body) ==
  /\ body # null
  /\ IsNumber(body.lat)
  /\ IsNumber(body.lon)
  /\ ~FixInRegion([lat4 |-> body.lat.num, lon4 |-> body.lon.num])

\* C4: a POST with a coordinate outside the region is answered with a 4xx
\* status (400 and the bounds error when the user is signed in), never
\* reaches the steps that read or write the store, and the step that
\* answers it leaves every row as it was
OutOfRegionRejectedWithoutEffect ==
  [][/\ \A r \in Requests : ~OutOfRegionBody(requests'[r].body)
     /\ (/\ result' # null
         /\ result'.route \in {"POST explore-grid", "POST mist-percentage"}
         /\ OutOfRegionBody(result'.body)) =>
          /\ result'.response.status \in 400..499
          /\ result'.userId # NoSession =>
               /\ result'.response.status = 400
               /\ result'.response.error = "coordinate not in Taiwan bounds"
          /\ result' # result => footprints' = footprints]_vars

\* a signed-in user's POST of (0, 0) was rejected while the store held a
\* row
OutOfRegionRejectedWithRows ==
  /\ result # null
  /\ result.route = "POST mist-percentage"
  /\ result.userId # NoSession
  /\ OutOfRegionBody(result.body)
  /\ result.response.status = 400
  /\ Len(footprints) >= 1


CornerEncodesToSameId ==
  (result # null /\ result.applied = "gridIdToCoordinate"
     /\ result.gridId # null) =>
    result.again = result.gridId


\* C13: the center of the id of an in-region coordinate is the corner
\* plus half a step on each axis (the corner's digits followed by 45 ten-
\* thousandths of latitude and 5 thousandths of longitude), and it lies
\* between the lower-left and the upper-right point of the polygon of the
\* same id
CenterIsInsidePolygon ==
  (result # null /\ result.applied = "gridIdToCenter"
     /\ result.gridId # null) =>
    /\ result.center # null
    /\ result.bounds # null
    /\ ToFixed(result.center.lat, 4) = result.gridId.lat3 * 10 + 45
    /\ ToFixed(result.center.lon, 3) = result.gridId.lon2 * 10 + 5
    /\ Len(result.bounds.rings) = 1
    /\ Len(result.bounds.rings[1]) = 5
    /\ result.bounds.rings[1][5] = result.bounds.rings[1][1]
    /\ DLe(result.bounds.rings[1][1][1], result.center.lon)
    /\ DLe(result.center.lon, result.bounds.rings[1][3][1])
    /\ DLe(result.bounds.rings[1][1][2], result.center.lat)
    /\ DLe(result.center.lat, result.bounds.rings[1][3][2])

\* the center of the cell of (25.0330, 121.5654) is (25.0335, 121.565)
SampleCellCenter ==
  /\ result # null
  /\ result.applied = "gridIdToCenter"
  /\ args = [lat4 |-> 250330, lon4 |-> 1215654]
  /\ ToFixed(result.center.lat, 4) = 250335
  /\ ToFixed(result.center.lon, 3) = 121565


\* ---- getVisibleGridIds (SpecViewport)
\* the viewport lies fully outside the region
ViewportOutside(v) ==
  \/ v.north < WinMinLatMilli * 10
  \/ v.south > WinMaxLatMilli * 10
  \/ v.east < WinMinLonCenti * 100
  \/ v.west > WinMaxLonCenti * 100

\* C17: getVisibleGridIds returns the empty sequence for every viewport
\* that lies fully outside the region, however close to it
OutsideViewportIsEmpty ==
  (result # null /\ ViewportOutside(args)) => result.gridIds = << >>


\* the viewport contains the whole region
ViewportContainsRegion(v) ==
  /\ v.south <= WinMinLatMilli * 10
  /\ v.north >= WinMaxLatMilli * 10
  /\ v.west <= WinMinLonCenti * 100
  /\ v.east >= WinMaxLonCenti * 100

\* C18: for a viewport that contains the whole region getVisibleGridIds
\* returns every id of getAllTaiwanGridIds, and every other id it returns
\* has the corner latitude maxLat or the corner longitude maxLon
ContainingViewportIsFullRegion ==
  (result # null /\ ViewportContainsRegion(args)) =>
    /\ Range(ComputeAllTaiwanGridIds) \subseteq Range(result.gridIds)
    /\ \A id \in Range(result.gridIds) \ Range(ComputeAllTaiwanGridIds) :
         id.lat3 = WinMaxLatMilli \/ id.lon2 = WinMaxLonCenti

\* the viewport that is exactly the region returned at least the cells of
\* the region
RegionViewportReturned ==
  /\ result # null
  /\ args = [south |-> WinMinLatMilli * 10, north |-> WinMaxLatMilli * 10,
             west |-> WinMinLonCenti * 100, east |-> WinMaxLonCenti * 100]
  /\ Len(result.gridIds) >= Len(ComputeAllTaiwanGridIds)

\* C19: the id of every in-region coordinate inside the viewport is among
\* the ids getVisibleGridIds returns (checked for the four corners and the
\* middle of the viewport)
ViewportProbes(v) ==
  [lat4 : {v.south, v.north, (v.south + v.north) \div 2},
   lon4 : {v.west, v.east, (v.west + v.east) \div 2}]

ViewportHasNoGaps ==
  result # null =>
    \A p \in ViewportProbes(args) :
      FixInRegion(p) => FixGridId(p) \in Range(result.gridIds)


\* ---- getAllTaiwanGridIds and its cache (SpecCache)
\* the arrays getAllTaiwanGridIds has returned and the cache, when filled
ReturnedArrays ==
  {requests[r].allGridIds : r \in {x \in Requests : requests[x].pc = "findMany"}}
    \cup (IF cachedAllTaiwanGridIds = null THEN {}
          ELSE {cachedAllTaiwanGridIds})

\* C14 as stated: every id returned has its corner in
\* [minLat, maxLat) x [minLon, maxLon), and the id of every step-aligned
\* corner in that rectangle is returned
CornersWithinBounds ==
  \A all \in ReturnedArrays :
    /\ \A id \in Range(all) :
         /\ id.lat3 % 9 = 0
         /\ WinMinLatMilli <= id.lat3 /\ id.lat3 < WinMaxLatMilli
         /\ WinMinLonCenti <= id.lon2 /\ id.lon2 < WinMaxLonCenti
    /\ \A lat3 \in WinMinLatMilli..(WinMaxLatMilli - 1),
          lon2 \in WinMinLonCenti..(WinMaxLonCenti - 1) :
         lat3 % 9 = 0 =>
           [prefix |-> "grid", lat3 |-> lat3, lon2 |-> lon2] \in Range(all)

\* the digits of the corner of the cell of (minLat, minLon), where the
\* loops start
StartCorner ==
  [lat3 |-> ToFixed(FloorToStep(TAIWAN_BOUNDS.minLat, GRID_SIZE_LAT), 3),
   lon2 |-> ToFixed(FloorToStep(TAIWAN_BOUNDS.minLon, GRID_SIZE_LON), 2)]

\* C14, amended: the ids returned are exactly those of the step-aligned
\* corners in [startLat, maxLat) x [startLon, maxLon), where (startLat,
\* startLon) is the floor-aligned corner of the cell of (minLat, minLon)
CornersFromFloorAlignedStart ==
  \A all \in ReturnedArrays :
    Range(all) =
      {[prefix |-> "grid", lat3 |-> lat3, lon2 |-> lon2] :
         lat3 \in {x \in StartCorner.lat3..(WinMaxLatMilli - 1) :
                     (x - StartCorner.lat3) % 9 = 0},
         lon2 \in StartCorner.lon2..(WinMaxLonCenti - 1)}

\* the array was returned and its first id is the start corner, south of
\* minLat
FirstRowSouthOfMinLat ==
  /\ cachedAllTaiwanGridIds # null
  /\ cachedAllTaiwanGridIds[1].lat3 = StartCorner.lat3
  /\ cachedAllTaiwanGridIds[1].lon2 = StartCorner.lon2
  /\ cachedAllTaiwanGridIds[1].lat3 < WinMinLatMilli
  /\ \E r \in Requests : requests[r].pc = "findMany"

\* C15: the array is in row-major order, strictly ascending by the
\* latitude and then the longitude of the corner, so it has no id twice,
\* and every row has the same number of cells
RowMajorAscending ==
  \A all \in ReturnedArrays :
    /\ \A i \in 1..(Len(all) - 1) :
         \/ all[i].lat3 < all[i + 1].lat3
         \/ all[i].lat3 = all[i + 1].lat3 /\ all[i].lon2 < all[i + 1].lon2
    /\ Cardinality(Range(all)) = Len(all)
    /\ \A lat3 \in {id.lat3 : id \in Range(all)} :
         Cardinality({k \in 1..Len(all) : all[k].lat3 = lat3}) *
           Cardinality({id.lat3 : id \in Range(all)}) = Len(all)

\* an array of more than one row of more than one cell was returned
SeveralRowsReturned ==
  /\ cachedAllTaiwanGridIds # null
  /\ \E i, j \in 1..Len(cachedAllTaiwanGridIds) :
       /\ cachedAllTaiwanGridIds[i].lat3 < cachedAllTaiwanGridIds[j].lat3
       /\ cachedAllTaiwanGridIds[i].lon2 < cachedAllTaiwanGridIds[j].lon2

\* C16: the cache is null until the first call of getAllTaiwanGridIds, a
\* step assigns it only in such a call and only the complete array, a
\* filled cache is never assigned again, and every call returns the same
\* array
CacheIsWriteOnce ==
  [][/\ cachedAllTaiwanGridIds # null =>
          cachedAllTaiwanGridIds' = cachedAllTaiwanGridIds
     /\ cachedAllTaiwanGridIds' # cachedAllTaiwanGridIds =>
          /\ \E r \in Requests :
               /\ requests[r].pc = "idle"
               /\ requests'[r].pc = "findMany"
          /\ Len(cachedAllTaiwanGridIds') =
               Cardinality(Range(cachedAllTaiwanGridIds'))
          /\ CornersFromFloorAlignedStart'
     /\ \A r \in Requests :
          requests'[r].pc = "findMany" =>
            requests'[r].allGridIds = cachedAllTaiwanGridIds']_vars

\* two runs hold the array at once, the second call having found the
\* cache filled
TwoRunsShareCache ==
  /\ cachedAllTaiwanGridIds # null
  /\ \A r \in Requests :
       /\ requests[r].pc = "findMany"
       /\ requests[r].allGridIds = cachedAllTaiwanGridIds


\* ---- FogLayer (SpecFog)
\* the ids getVisibleGridIds returns for the viewport of the input
VisibleOfInput ==
  IF args.viewport = null THEN << >> ELSE FixVisibleGridIds(args.viewport)

\* C20: the fog list is the list of visible ids without the explored
\* ones, in the same order: no explored id is fogged and every visible id
\* that is not explored is; the GeoJSON handed to the map has one feature
\* per fogged id, in order, carrying the id and the five-point ring whose
\* first and last point is the corner the id names
FogIsVisibleMinusExplored ==
  result # null =>
    /\ result.visibleGridIds = VisibleOfInput
    /\ Range(result.unexploredGridIds) = Range(VisibleOfInput) \ args.explored
    /\ result.unexploredGridIds =
         SelectSeq(VisibleOfInput, LAMBDA id : id \notin args.explored)
    /\ IF result.unexploredGridIds = << >> THEN result.fogGeoJSON = null
       ELSE /\ result.fogGeoJSON # null
            /\ Len(result.fogGeoJSON.features) = Len(result.unexploredGridIds)
            /\ \A k \in 1..Len(result.unexploredGridIds) :
                 LET f == result.fogGeoJSON.features[k]
                     id == result.unexploredGridIds[k]
                     ring == f.geometry.coordinates[1]
                 IN  /\ f.properties.gridId = id
                     /\ Len(f.geometry.coordinates) = 1
                     /\ Len(ring) = 5
                     /\ ring[5] = ring[1]
                     /\ ToFixed(ring[1][1], 2) = id.lon2
                     /\ ToFixed(ring[1][2], 3) = id.lat3
                     /\ ToFixed(ring[3][1], 2) = id.lon2 + 1
                     /\ ToFixed(ring[3][2], 3) = id.lat3 + 9

\* some visible ids were explored and left out, the others were fogged
SomeFoggedSomeExplored ==
  /\ result # null
  /\ Range(result.visibleGridIds) \cap args.explored # {}
  /\ result.unexploredGridIds # << >>
  /\ Len(result.unexploredGridIds) < Len(result.visibleGridIds)
  /\ result.fogGeoJSON # null


\* ---- a visit recorded with no other run in flight (SpecSequential)
\* the slot whose run responds 200 in this step
Responds(r) ==
  /\ requests[r].pc # "idle"
  /\ requests'[r].pc = "idle"
  /\ result'.response.status = 200

\* the rows of the run's owner and coordinate string before the step
RowsOfRun(r) ==
  {i \in 1..Len(footprints) :
     /\ footprints[i].user_id = requests[r].userId
     /\ footprints[i].coordinate = requests[r].coordinate}

\* the response says that a record was created
ReportsCreated(response) ==
  \/ "alreadyExplored" \in DOMAIN response /\ ~response.alreadyExplored
  \/ "data" \in DOMAIN response /\ "created" \in DOMAIN response.data

\* no row was added and only Update_time of the rows in touched changed,
\* to a later time
OnlyTouched(touched) ==
  /\ Len(footprints') = Len(footprints)
  /\ \A i \in 1..Len(footprints) :
       IF i \in touched
         THEN /\ footprints'[i] =
                   [footprints[i] EXCEPT
                      !.Update_time = footprints'[i].Update_time]
              /\ footprints'[i].Update_time > footprints[i].Update_time
       ELSE footprints'[i] = footprints[i]

\* exactly one row was added, for the run's owner and coordinate string
OneRowCreated(r) ==
  /\ Len(footprints') = Len(footprints) + 1
  /\ SubSeq(footprints', 1, Len(footprints)) = footprints
  /\ footprints'[Len(footprints')].user_id = requests[r].userId
  /\ footprints'[Len(footprints')].coordinate = requests[r].coordinate

\* C21 as stated: a visit to a coordinate string the owner has a record of
\* adds no record, touches the record's Update_time and reports no
\* creation, in both handlers; a visit to a new one creates one record and
\* reports it
RevisitTouchesUpdateTime ==
  [][\A r \in Requests :
       Responds(r) =>
         IF RowsOfRun(r) # {}
           THEN /\ ~ReportsCreated(result'.response)
                /\ OnlyTouched(RowsOfRun(r))
         ELSE /\ ReportsCreated(result'.response)
              /\ OneRowCreated(r)]_vars

\* C21: a visit to a coordinate string the owner has a record of adds no
\* record and reports no creation; POST mist-percentage touches the
\* record's Update_time and POST explore-grid leaves the record as it is;
\* a visit to a new coordinate string creates one record and reports it
RevisitTouchesOnlyInMistPost ==
  [][\A r \in Requests :
       Responds(r) =>
         IF RowsOfRun(r) # {}
           THEN /\ ~ReportsCreated(result'.response)
                /\ IF requests[r].route = "POST mist-percentage"
                     THEN OnlyTouched(RowsOfRun(r))
                   ELSE footprints' = footprints
         ELSE /\ ReportsCreated(result'.response)
              /\ OneRowCreated(r)]_vars

\* a record was created by one run and touched by a later one
CreatedThenTouched ==
  /\ result # null
  /\ result.route = "POST mist-percentage"
  /\ "data" \in DOMAIN result.response
  /\ "updated" \in DOMAIN result.response.data
  /\ Len(footprints) = 1
  /\ footprints[1].Update_time > footprints[1].Create_time



\* ---- two visits of one cell with different coordinates (SpecSequential)
PostRoutes == {"POST explore-grid", "POST mist-percentage"}

\* the response before this one accepted a visit of the same owner with
\* another body whose coordinate lies in the cell of the run in slot r
PreviousAcceptedSameCell(r) ==
  /\ result # null
  /\ result.route \in PostRoutes
  /\ result.response.status = 200
  /\ result.userId = requests[r].userId
  /\ result.body # requests[r].body
  /\ ExploreGridInputs[result.body].gridId = requests[r].gridId

\* the rows of a user whose coordinate lies in the cell gridId
RowsOfCell(table, userId, gridId) ==
  {i \in 1..Len(table) :
     /\ table[i].user_id = userId
     /\ GridIdOf(table[i].coordinate) = gridId}

\* GET explored-grids would list the cell gridId once for the user
ListedOnce(table, userId, gridId) ==
  Cardinality({k \in 1..Len(ExploredGrids(FindMany(table, userId))) :
                 ExploredGrids(FindMany(table, userId))[k].gridId = gridId})
    = 1

OwnerOfStep(r) ==
  IF requests[r].pc = "idle" THEN requests'[r].userId
  ELSE requests[r].userId

\* the percentage GET mist-percentage returns to a user
CoverageOf(table, userId) ==
  MistPercentage(Len(exploredGridIds(FindMany(table, userId))),
                 Len(ComputeAllTaiwanGridIds))

\* C23: a step of a run of POST explore-grid or POST mist-percentage made
\* as one user adds or changes rows of that user only, and leaves the
\* rows, the explored set and the percentage of every other user as they
\* were, whatever other runs are in flight
OtherOwnersUnchanged ==
  [][\A r \in Requests :
       (requests'[r] # requests[r] /\ footprints' # footprints) =>
         /\ \A i \in 1..Len(footprints') :
              (i > Len(footprints) \/ footprints'[i] # footprints[i])
                => footprints'[i].user_id = OwnerOfStep(r)
         /\ \A u \in Users \ {OwnerOfStep(r)} :
              /\ FindMany(footprints', u) = FindMany(footprints, u)
              /\ ExploredOf(footprints', u) = ExploredOf(footprints, u)
              /\ CoverageOf(footprints', u) = CoverageOf(footprints, u)]_vars

\* a user recorded a coordinate that another user has a row of as well
VisitBesideOtherOwner ==
  /\ result # null
  /\ result.route = "POST mist-percentage"
  /\ result.response.status = 200
  /\ "created" \in DOMAIN result.response.data
  /\ \E i, j \in 1..Len(footprints) :
       /\ footprints[i].user_id = result.userId
       /\ footprints[j].user_id # result.userId
       /\ footprints[j].coordinate = footprints[i].coordinate



\* ---- grid id strings, well formed and malformed (SpecId)
\* a piece that is a decimal numeral and nothing else
IsNumeral(piece) == DOMAIN piece = {"neg", "n", "d"}

\* the string has the form grid_<number>_<number>
WellFormed(gridId) ==
  IF "parts" \in DOMAIN gridId
    THEN /\ Len(gridId.parts) = 3
         /\ gridId.parts[1] = [txt |-> "grid"]
         /\ IsNumeral(gridId.parts[2])
         /\ IsNumeral(gridId.parts[3])
  ELSE DOMAIN gridId = {"prefix", "lat3", "lon2"} /\ gridId.prefix = "grid"

\* the two numbers of a well-formed id
NumbersOf(gridId) ==
  IF "parts" \in DOMAIN gridId
    THEN [lat |-> DFromDecimalBig(FALSE, gridId.parts[2].n,
                                  gridId.parts[2].d),
          lon |-> DFromDecimalBig(FALSE, gridId.parts[3].n,
                                  gridId.parts[3].d)]
  ELSE [lat |-> DFromDecimal(gridId.lat3, 3),
        lon |-> DFromDecimal(gridId.lon2, 2)]

\* C24: the polygon of a well-formed id is one closed ring of five
\* [lon, lat] points: the corner, the corner one latitude step north, the
\* corner one step north and one step east, the corner one longitude step
\* east, and the corner again; a malformed id has no polygon
PolygonIsClosedRingOrNull ==
  (result # null /\ result.applied = "gridIdToBounds") =>
    IF WellFormed(args)
      THEN /\ result.bounds # null
           /\ Len(result.bounds.rings) = 1
           /\ LET ring == result.bounds.rings[1]
                  corner == NumbersOf(args)
                  north == DAdd(corner.lat, GRID_SIZE_LAT)
                  east == DAdd(corner.lon, GRID_SIZE_LON)
              IN  /\ Len(ring) = 5
                  /\ ring[1] = <<corner.lon, corner.lat>>
                  /\ ring[2] = <<corner.lon, north>>
                  /\ ring[3] = <<east, north>>
                  /\ ring[4] = <<east, corner.lat>>
                  /\ ring[5] = ring[1]
    ELSE result.bounds = null

\* C25: a string that is not grid_<number>_<number> has no corner, and so
\* no center and no polygon, and gridIdsToGeoJSON leaves its feature out
MalformedIdHasNoShape ==
  (result # null /\ ~WellFormed(args)) =>
    IF result.applied = "gridIdToBounds"
      THEN /\ result.corner = null
           /\ result.center = null
           /\ result.bounds = null
    ELSE /\ Len(result.geojson.features) = 1
         /\ result.geojson.features[1].properties.gridId
              = ComputeAllTaiwanGridIds[1]



\* ---- a visit posted to explore-grid and read back (Spec)
\* C26: once POST explore-grid has answered 200 for a coordinate of the
\* region, the grid id of that coordinate is among the grids that GET
\* explored-grids derives from the rows of the user
RecordedCellIsExplored ==
  (/\ result # null
   /\ result.route = "POST explore-grid"
   /\ result.response.status = 200)
    => result.response.footprint.gridId
         \in ExploredOf(footprints, result.userId)



\* ---- the grid id of a coordinate and the full region (SpecDenominator)
\* C27: the grid id of every coordinate of the region, the coordinates on
\* maxLat and on maxLon included, is one of the ids getAllTaiwanGridIds
\* returns
GridIdIsInFullRegion ==
  (result # null /\ result.gridId # null) =>
    result.gridId \in Range(result.allGridIds)



\* ---- a visit that failed while the database was down (SpecClientLive)
\* the cell of the sample fixes
SampleCell == ClientGridIds[NumberBody(250330, 1215654)]

\* POST explore-grid answered 503 for the cell the user is in
ExploreGridFailedInCell ==
  /\ result # null
  /\ result.route = "POST explore-grid"
  /\ result.response.status = 503
  /\ ClientGridIds[result.body] = SampleCell
  /\ args.currentGridIdRef = SampleCell

\* C28: when the POST for the cell the user has entered was answered 503
\* and the database comes back for good, then, unless the user leaves the
\* cell, the cell is eventually among the user's explored grids
FailedVisitIsSynchronised ==
  (<>[]dbAvailable) =>
    (ExploreGridFailedInCell ~>
       (\/ SampleCell \in ExploredOf(footprints, ClientUser)
        \/ args.currentGridIdRef # SampleCell))


\* C29: when POST refresh-main-task answers refreshed: true, the
\* currentTaskCount of the response is the number of the user's main and
\* temporary tasks of the last seven days that the store holds after the
\* request, and it is 3 when at least three attractions were found.
RefreshedCountMatchesStore ==
  [][\A r \in Requests :
       (/\ requests[r].pc = "createUserTask"
        /\ requests'[r].pc = "idle"
        /\ result'.route = RefreshRoute
        /\ result'.response.status = 200
        /\ result'.response.refreshed)
       => /\ result'.response.currentTaskCount
               = Len(UserMainTasks(tasks', requests[r].userId))
                 + Len(UserTemporaryTasks(tasks', userTasks',
                                          requests[r].userId))
          /\ requests[r].attractions >= TaskTarget
               => result'.response.currentTaskCount = TaskTarget]_vars


\* the record or the pictures of id differ across the step
MapRecordChanged(id) ==
  \/ MapRecordFindUnique(mapRecords', id) # MapRecordFindUnique(mapRecords, id)
  \/ PicturesOfRecord(mapRecordPictures', id)
       # PicturesOfRecord(mapRecordPictures, id)

\* run r, a PUT or DELETE naming id, takes the step
StepOfRunOn(r, id) ==
  /\ requests[r].pc # "idle"
  /\ requests'[r] # requests[r]
  /\ requests[r].route \in {MapRecordPutRoute, MapRecordDeleteRoute}
  /\ requests[r].body.id.id = id

\* C30: an authenticated PUT (carrying id and name) or DELETE (carrying
\* id) changes a MapRecord or its pictures only when the record exists and
\* its user_id is the requesting user's id; the lookup of a missing record
\* answers 404, the lookup of another user's record answers 403, and a step
\* that answers 404 or 403 leaves the records and the pictures unchanged.
OnlyOwnerChangesMapRecord ==
  [][/\ \A id \in RequestedRecordIds :
          MapRecordChanged(id)
          => \/ /\ MapRecordFindUnique(mapRecords, id) = null
                /\ result'.route = MapRecordPostRoute
                /\ UNCHANGED requests
             \/ \E r \in Requests :
                  /\ StepOfRunOn(r, id)
                  /\ MapRecordFindUnique(mapRecords, id) # null
                  /\ MapRecordFindUnique(mapRecords, id).user_id
                       = requests[r].userId
     /\ \A r \in Requests :
          requests[r].pc \in {"putFindUnique", "deleteFindUnique"}
          /\ requests'[r] # requests[r]
          => LET existingRecord ==
                   MapRecordFindUnique(mapRecords, requests[r].body.id.id)
             IN  /\ existingRecord = null
                      => /\ requests'[r].pc = "idle"
                         /\ result'.response.status = 404
                 /\ (existingRecord # null
                     /\ existingRecord.user_id # requests[r].userId)
                      => /\ requests'[r].pc = "idle"
                         /\ result'.response.status = 403
     /\ \A r \in Requests :
          (/\ requests[r].pc # "idle"
           /\ requests'[r].pc = "idle"
           /\ result'.response.status \in {403, 404})
          => UNCHANGED mapTables]_vars

\* a PUT of u2 on the record of u1 was answered 403, and the record and its
\* picture are as they were stored
ForbiddenPutLeftRecord ==
  /\ result # null
  /\ result.route = MapRecordPutRoute
  /\ result.userId = "u2"
  /\ result.response.status = 403
  /\ result.body.id = [id |-> StoredRecordId]
  /\ MapRecordFindUnique(mapRecords, StoredRecordId)
       = MapRecordRow(StoredRecordId, "u1", [txt |-> "home"], null, null)
  /\ PicturesOfRecord(mapRecordPictures, StoredRecordId)
       = <<MapRecordPictureRow(StoredRecordId, "p1")>>

============================================================================
